---- MODULE Spec2Model ----
(***************************************************************************)
(* Model of the ERC-8004 catalog sync engine (scripts/sync.mjs, and the    *)
(* earlier scanner revision kept in unnamed/part_001).                     *)
(*                                                                         *)
(* Block numbers, chunk sizes, the fetch concurrency and the retry ceiling *)
(* keep their roles; the block numbers and chunk sizes are scaled down so  *)
(* that a scan spans a handful of windows.                                 *)
(***************************************************************************)
EXTENDS Integers, Sequences, FiniteSets, TLC

VARIABLES
  ledger,      \* per chain, the mint events of the registry (the chain's log)
  height,      \* per chain, the current block height
  files,       \* data/agents/<id>.json : id -> file content, or NoFile
  indexFile,   \* data/index.json on disk
  run,         \* number of process starts so far; also the clock of syncedAt
  pc,          \* position of the running process in syncAgents
  mem,         \* memory of the running process (module globals and locals)
  hist,        \* observation of the current and the previous run
  arg,         \* input of the function under study (function specifications)
  res          \* its results (function specifications)

orchVars == <<ledger, height, files, indexFile, run, pc, mem, hist>>
vars == <<ledger, height, files, indexFile, run, pc, mem, hist, arg, res>>

----------------------------------------------------------------------------
(* Bounds of the model                                                     *)

MaxId == 2            \* token ids are 1..MaxId
MaxHeight == 3        \* the chains grow up to this block
MaxRuns == 2          \* process starts per behaviour
MaxWindows == 3       \* windows fed to the scanner in SpecMint

(* Program constants (scaled)                                              *)

ETH_START_BLOCK == 1
ETH_BLOCK_CHUNK == 2
BASE_START_BLOCK == 1
BASE_BLOCK_CHUNK == 3
PARALLEL_FETCHES == 2
RETRIES == 3
CHECKPOINT_CHUNKS == 2   \* part_001: a checkpoint every 200 chunks

Ids == 1..MaxId
Chains == {"ethereum", "base"}

Min(S) == CHOOSE x \in S : \A y \in S : x <= y
Max(S) == CHOOSE x \in S : \A y \in S : x >= y

----------------------------------------------------------------------------
(* JavaScript values as tagged tuples of strings                           *)

UNDEF == <<"undefined">>
NULL == <<"null">>
Str(s) == <<"str", s>>
JTrue == <<"bool", "true">>
JFalse == <<"bool", "false">>
List(items) == <<"list">> \o items

\* ToBoolean: undefined, null, false and '' are falsy; a list is truthy
Truthy(v) == v \notin {UNDEF, NULL, JFalse, Str("")}
\* v == null (undefined or null), the test of ?? and ?.
Nullish(v) == v \in {UNDEF, NULL}
\* a || b
Or(a, b) == IF Truthy(a) THEN a ELSE b
\* a || b written where a ?? b is meant
Coalesce_asOr(a, b) == IF Truthy(a) THEN a ELSE b
\* a ?? b
Coalesce(a, b) == IF Nullish(a) THEN b ELSE a
\* v?.length > 0 for a list value; false for undefined/null and for ''
LengthPositive(v) == v[1] = "list" /\ Len(v) > 1

\* property read on an object: a missing key reads as undefined
Get(obj, f) == IF f \in DOMAIN obj THEN obj[f] ELSE UNDEF

\* the keys of a record that hold a tagged value (the others hold numbers,
\* plain strings or documents, which are never undefined)
TaggedKeys == {"error", "name", "description", "image", "active", "x402Support", "services"}

\* JSON.stringify followed by JSON.parse: keys whose value is undefined vanish
JSONRoundTrip(obj) ==
  LET kept == {f \in DOMAIN obj : f \notin TaggedKeys \/ obj[f] # UNDEF}
  IN  [f \in kept |-> obj[f]]

----------------------------------------------------------------------------
(* withRetry (sync.mjs 97-110).  attempts[i] is what the i-th invocation    *)
(* of fn would produce: [ok |-> TRUE, v |-> value] or [ok |-> FALSE,       *)
(* err |-> message of the error]. The result tells whether the call        *)
(* resolved, with which value or error, how many invocations were made and *)
(* how many times the endpoint indexes were advanced.                      *)

RECURSIVE withRetryFrom(_, _, _)
withRetryFrom(attempts, i, retries) ==
  IF attempts[i + 1].ok
    THEN [ok |-> TRUE, v |-> attempts[i + 1].v, calls |-> i + 1, rotations |-> i]
    ELSE IF i = retries - 1
      THEN [ok |-> FALSE, err |-> attempts[i + 1].err, calls |-> i + 1, rotations |-> i]
      ELSE withRetryFrom(attempts, i + 1, retries)

\* one attempt more than the default of the retries parameter
withRetry_oneMore(attempts) == withRetryFrom(attempts, 0, RETRIES + 1)

withRetry(attempts) == withRetryFrom(attempts, 0, RETRIES)

Ok(v) == [ok |-> TRUE, v |-> v]
Fail(msg) == [ok |-> FALSE, err |-> msg]

----------------------------------------------------------------------------
(* Metadata documents and the outcomes of parseAgentURI as fetchAgent sees *)
(* them: a document (k = "doc"), no value (k = "undefined"), JSON null     *)
(* (k = "null") or a rejected promise (k = "reject", err its message).     *)

EmptyDoc == [x \in {} |-> UNDEF]

MetaDoc(d) == [k |-> "doc", d |-> d, err |-> UNDEF]
MetaNoValue == [k |-> "undefined", d |-> EmptyDoc, err |-> UNDEF]
MetaNull == [k |-> "null", d |-> EmptyDoc, err |-> UNDEF]
MetaReject(msg) == [k |-> "reject", d |-> EmptyDoc, err |-> msg]

TypeErrorMessage == Str("Cannot read properties of undefined")

NullBlock == 0 - 1      \* registeredBlock: null
NullHash == "null"      \* txHash: null

----------------------------------------------------------------------------
(* fetchAgent (sync.mjs 195-232)                                           *)
(*   clientIsEth  : client === ethClient when the record is assembled      *)
(*   uriAtt, ownerAtt : the attempts of the two readContract calls         *)
(*   firstReject  : which of the two rejects first when both fail          *)
(*   meta         : outcome of parseAgentURI(uri)                          *)
(* The try block either completes with a record or throws an error.        *)

fetchAgentTry(clientIsEth, id, mintInfo, uriAtt, ownerAtt, firstReject, meta, now) ==
  LET uriR == withRetry(uriAtt)
      ownerR == withRetry(ownerAtt)
  IN
  IF ~uriR.ok \/ ~ownerR.ok
    THEN \* Promise.all rejects with the first rejection
         [threw |-> TRUE,
          err |-> IF ~uriR.ok /\ (ownerR.ok \/ firstReject = "uri") THEN uriR.err
                  ELSE ownerR.err,
          rec |-> EmptyDoc]
  ELSE IF meta.k = "reject"
    THEN [threw |-> TRUE, err |-> meta.err, rec |-> EmptyDoc]
  ELSE IF meta.k \in {"undefined", "null"}
    THEN \* metadata.name on undefined/null
         [threw |-> TRUE, err |-> TypeErrorMessage, rec |-> EmptyDoc]
  ELSE
    LET metadata == meta.d IN
    [threw |-> FALSE, err |-> UNDEF,
     rec |-> [id |-> id,
              owner |-> ownerR.v,
              chain |-> IF clientIsEth THEN "ethereum" ELSE "base",
              name |-> Or(Get(metadata, "name"), Str("Agent #" \o ToString(id))),
              description |-> Or(Get(metadata, "description"), Str("")),
              image |-> Or(Get(metadata, "image"), Str("")),
              active |-> Coalesce(Get(metadata, "active"), JTrue),
              x402Support |-> Coalesce(Get(metadata, "x402Support"), JFalse),
              services |-> Or(Get(metadata, "services"), List(<<>>)),
              registeredBlock |-> IF mintInfo.blockNumber # 0 THEN mintInfo.blockNumber ELSE NullBlock,
              txHash |-> IF mintInfo.txHash # "" THEN mintInfo.txHash ELSE NullHash,
              rawMetadata |-> metadata,
              syncedAt |-> now]]

\* the catch block: err.message?.slice(0, 100)
ErrorRecord(id, err, now) ==
  [id |-> id, error |-> err, chain |-> "unknown", syncedAt |-> now]

\* fetchAgent without its try/catch
fetchAgent_nocatch(clientIsEth, id, mintInfo, uriAtt, ownerAtt, firstReject, meta, now) ==
  LET t == fetchAgentTry(clientIsEth, id, mintInfo, uriAtt, ownerAtt, firstReject, meta, now)
  IN  [raised |-> t.threw, rec |-> t.rec]

fetchAgent(clientIsEth, id, mintInfo, uriAtt, ownerAtt, firstReject, meta, now) ==
  LET t == fetchAgentTry(clientIsEth, id, mintInfo, uriAtt, ownerAtt, firstReject, meta, now)
  IN  IF t.threw
        THEN [raised |-> FALSE, rec |-> ErrorRecord(id, t.err, now)]
        ELSE [raised |-> FALSE, rec |-> t.rec]

----------------------------------------------------------------------------
(* getMintEvents (sync.mjs 148-193): the windows of a range and the        *)
(* accumulation of the logs of a window into the map allMints, kept as the *)
(* sequence of its values in insertion order.                              *)

\* the full-size window takes in the block at current + chunk as well
RECURSIVE WindowsFrom_inclusive(_, _, _)
WindowsFrom_inclusive(current, end, chunk) ==
  IF current > end THEN <<>>
  ELSE LET chunkEnd == IF current + chunk > end THEN end ELSE current + chunk
       IN  <<[lo |-> current, hi |-> chunkEnd]>>
             \o WindowsFrom_inclusive(chunkEnd + 1, end, chunk)

RECURSIVE WindowsFrom(_, _, _)
WindowsFrom(current, end, chunk) ==
  IF current > end THEN <<>>
  ELSE LET chunkEnd == IF current + chunk > end THEN end ELSE current + chunk - 1
       IN  <<[lo |-> current, hi |-> chunkEnd]>> \o WindowsFrom(chunkEnd + 1, end, chunk)

MapHas(allMints, tokenId) == \E k \in 1..Len(allMints) : allMints[k].tokenId = tokenId

\* the accumulation without the has() test: a later event replaces nothing
\* but is stored again
RECURSIVE addLogs_nodedup(_, _)
addLogs_nodedup(allMints, logs) ==
  IF logs = <<>> THEN allMints
  ELSE addLogs_nodedup(Append(allMints, Head(logs)), Tail(logs))

RECURSIVE addLogs(_, _)
addLogs(allMints, logs) ==
  IF logs = <<>> THEN allMints
  ELSE LET log == Head(logs) IN
       addLogs(IF ~MapHas(allMints, log.tokenId)
                 THEN Append(allMints, [tokenId |-> log.tokenId, to |-> log.to,
                                        blockNumber |-> log.blockNumber, txHash |-> log.txHash])
                 ELSE allMints,
               Tail(logs))

\* one iteration of the while loop: query (with retry), accumulate or log the error
scanWindow(allMints, attempts) ==
  LET r == withRetry(attempts)
  IN  IF r.ok THEN addLogs(allMints, r.v) ELSE allMints

----------------------------------------------------------------------------
(* The ledger: each chain's mint events (Transfer from the zero address).  *)
(* An event of a block above the chain's height has not happened yet.      *)

MintEvent(c, id, b) ==
  [tokenId |-> id, to |-> "0xowner", blockNumber |-> b,
   txHash |-> (IF c = "ethereum" THEN "0xe" ELSE "0xb") \o ToString(id)]

CandidateMints ==
  [ethereum |-> {MintEvent("ethereum", 1, 1), MintEvent("ethereum", MaxId, 3)},
   base |-> {MintEvent("base", 1, 2)}]

\* the same numeric id may be minted on both chains, or on one only; or each
\* chain has minted an id of its own
LedgerChoices ==
  {CandidateMints, [CandidateMints EXCEPT !.base = {}],
   [ethereum |-> {MintEvent("ethereum", 1, 1)}, base |-> {MintEvent("base", MaxId, 2)}]}

InitialHeight == 2

RECURSIVE SortByBlock(_)
SortByBlock(S) ==
  IF S = {} THEN <<>>
  ELSE LET e == CHOOSE x \in S : \A y \in S :
                   \/ x.blockNumber < y.blockNumber
                   \/ (x.blockNumber = y.blockNumber /\ x.tokenId <= y.tokenId)
       IN  <<e>> \o SortByBlock(S \ {e})

\* client.getLogs({fromBlock, toBlock}) on chain c
getLogs(c, lo, hi) ==
  SortByBlock({e \in ledger[c] : lo <= e.blockNumber /\ e.blockNumber <= hi})

----------------------------------------------------------------------------
(* data/index.json and data/agents/<id>.json                               *)

NoFile == [nofile |-> TRUE]

\* sync.mjs 72: the index when data/index.json does not exist
DefaultIndex ==
  [lastSync |-> 0, ethLastBlock |-> 0, baseLastBlock |-> 0, totalAgents |-> 0,
   agents |-> <<>>, stats |-> EmptyDoc]

SetField(obj, f, v) == [g \in DOMAIN obj \cup {f} |-> IF g = f THEN v ELSE obj[g]]

LastBlockField(c) == IF c = "ethereum" THEN "ethLastBlock" ELSE "baseLastBlock"
StartBlock(c) == IF c = "ethereum" THEN ETH_START_BLOCK ELSE BASE_START_BLOCK
\* getMintEvents 154: label.includes('Base') ? BASE_BLOCK_CHUNK : ETH_BLOCK_CHUNK
BlockChunk(c) == IF c = "base" THEN BASE_BLOCK_CHUNK ELSE ETH_BLOCK_CHUNK

FileIds == {id \in Ids : files[id] # NoFile}

\* slice(from + 1): one entry too many is dropped
Slice_offByOne(q, from) == SubSeq(q, from + 2, Len(q))

\* Array.prototype.slice(from) and slice(from, to), 0-based, end exclusive
Slice(q, from) == SubSeq(q, from + 1, Len(q))

\* slice(from, to) with its end taken as inclusive
Slice2_oneMore(q, from, to) == SubSeq(q, from + 1, IF to + 1 < Len(q) THEN to + 1 ELSE Len(q))

Slice2(q, from, to) == SubSeq(q, from + 1, IF to < Len(q) THEN to ELSE Len(q))

ZeroCounters == [active |-> 0, inactive |-> 0, errors |-> 0, x402 |-> 0, withServices |-> 0]
ZeroStats == [ethereum |-> ZeroCounters, base |-> ZeroCounters]

Bump(stats, c, k) == [stats EXCEPT ![c][k] = @ + 1]

\* agent.chain === 'ethereum' ? stats.ethereum : stats.base
ChainStatsOf(agent) == IF agent.chain = "ethereum" THEN "ethereum" ELSE "base"

\* sync.mjs 342-345 and 376-379: the tally of a record without error
TallyFields(stats, agent) ==
  LET c == ChainStatsOf(agent)
      s1 == IF Truthy(Get(agent, "active")) THEN Bump(stats, c, "active")
            ELSE Bump(stats, c, "inactive")
      s2 == IF Truthy(Get(agent, "x402Support")) THEN Bump(s1, c, "x402") ELSE s1
      s3 == IF LengthPositive(Get(agent, "services")) THEN Bump(s2, c, "withServices") ELSE s2
  IN  s3

\* sync.mjs 338-347: the tally of a record fetched in this run
TallyFetched(stats, agent) ==
  IF Truthy(Get(agent, "error")) THEN Bump(stats, ChainStatsOf(agent), "errors")
  ELSE TallyFields(stats, agent)

\* sync.mjs 373-380: the tally of a record read back from disk at finalize
TallyExisting(stats, agent) ==
  IF ~Truthy(Get(agent, "error")) THEN TallyFields(stats, agent) ELSE stats

RECURSIVE TallyExistingAll(_, _)
TallyExistingAll(stats, ids) ==
  IF ids = {} THEN stats
  ELSE LET id == Min(ids) IN
       TallyExistingAll(IF files[id] # NoFile THEN TallyExisting(stats, files[id]) ELSE stats,
                        ids \ {id})

\* Array.from(existingIds).sort((a, b) => b - a)
RECURSIVE SortDesc(_)
SortDesc(S) == IF S = {} THEN <<>> ELSE <<Max(S)>> \o SortDesc(S \ {Max(S)})

----------------------------------------------------------------------------
(* The process: module-level state and the locals of syncAgents            *)

Terminal == {"idle", "done", "checkpoint_exit", "aborted"}
Running == {"init", "scan", "fetch", "write", "save"}
\* positions of the scanner revision of part_001
RunningLegacy == {"l_scan", "l_fetch", "l_write"}

IdleMem ==
  [index |-> DefaultIndex, forceRefresh |-> FALSE, existingIds |-> {},
   idsToSync |-> <<>>, block |-> [c \in Chains |-> 0],
   current |-> [c \in Chains |-> 0], allMints |-> [c \in Chains |-> <<>>],
   chunksProcessed |-> [c \in Chains |-> 0],
   stats |-> ZeroStats, i |-> 0, results |-> <<>>, j |-> 0, over |-> FALSE]

\* how a run ended and left its queue (hist.exit; hist.prev for the run before)
\*   kind   : "done", "deadline", "aborted", "kill_boundary" (killed between
\*            two batches, after the index write), "kill_scan" (killed during
\*            the scan) or "kill" (killed elsewhere)
\*   failed : a window query of the run failed
\*   n      : length of its fetch queue
\*   tail   : the queue entries after the batches it completed
\*   expect : ids of the record files an uninterrupted run would leave
\*   stats, existingIds, queueIds : its tally, its set of existing ids and the
\*            ids of its queue when it was stopped between two batches
\*   scan   : it was stopped between two batches and had built its queue itself
NoExit ==
  [kind |-> "none", failed |-> FALSE, n |-> 0, tail |-> <<>>, expect |-> {},
   stats |-> ZeroStats, existingIds |-> {}, queueIds |-> {}, scan |-> FALSE]

\* hist of the current run
\*   mode       : "RESUME" or "SCAN" once decided
\*   force      : the run was started with FORCE_REFRESH
\*   fetched    : queue entries handed to fetchAgent, in order
\*   written    : ids of the record files written, in order
\*   failed     : per chain, first block of each window whose query failed
\*   wroteIndex : the run has written data/index.json
\*   queued     : the fetch queue of the run is decided
\*   idsAtStart : ids that had a record file when the run started
\*   newMints   : a mint event lies between a checkpoint and the height read
\*   okReads    : for the batch in flight, which fetches met successful reads
\*   from       : per chain, the first block of the scan (0: no scan)
\*   askedHeight, askedLogs : a getBlockNumber / getLogs call was issued
\*   errAtStart : ids whose record file held an error record at the start
\*   writeFailed : a write of data/index.json has failed in the run
\*   batches    : iterations of the fetch loop that started a batch
\*   heightFailures : getBlockNumber invocations of the run that rejected
\*   okIds      : ids the run has added to existingIds after a fetch
FreshHist(prev, exit, ids, force) ==
  [mode |-> "none", force |-> force, fetched |-> <<>>, written |-> <<>>,
   errAtStart |-> {id \in ids : "error" \in DOMAIN files[id]},
   writeFailed |-> FALSE, batches |-> 0, heightFailures |-> 0, okIds |-> {},
   failed |-> [c \in Chains |-> {}], wroteIndex |-> FALSE, queued |-> FALSE,
   idsAtStart |-> ids, newMints |-> FALSE, okReads |-> <<>>,
   from |-> [c \in Chains |-> 0], askedHeight |-> FALSE, askedLogs |-> FALSE,
   prev |-> prev, exit |-> exit]

QueueIds(q) == {q[k].id : k \in 1..Len(q)}

ExitInfo(kind) ==
  [kind |-> kind, failed |-> \E c \in Chains : hist.failed[c] # {},
   n |-> Len(mem.idsToSync),
   tail |-> SubSeq(mem.idsToSync, mem.i + 1, Len(mem.idsToSync)),
   expect |-> hist.idsAtStart \cup QueueIds(mem.idsToSync),
   stats |-> IF kind \in {"deadline", "kill_boundary"} THEN mem.stats ELSE ZeroStats,
   existingIds |-> IF kind \in {"deadline", "kill_boundary"} THEN mem.existingIds ELSE {},
   queueIds |-> IF kind \in {"deadline", "kill_boundary"} THEN QueueIds(mem.idsToSync) ELSE {},
   scan |-> kind \in {"deadline", "kill_boundary"} /\ hist.mode = "SCAN"]

\* the ledger reads and metadata outcomes a fetch can meet in a run
DocFull ==
  [name |-> Str("Bot"), active |-> JTrue, x402Support |-> JTrue, services |-> List(<<"mcp">>)]
DocInactive == [active |-> JFalse]

ReadOk(v) == <<Ok(v), Ok(v), Ok(v)>>
ReadRetryOk(v) == <<Fail(Str("timeout")), Ok(v), Ok(v)>>
ReadFail == <<Fail(Str("timeout")), Fail(Str("timeout")), Fail(Str("rate limited"))>>

FetchCase(uriAtt, ownerAtt, meta) ==
  [uriAtt |-> uriAtt, ownerAtt |-> ownerAtt, firstReject |-> "uri", meta |-> meta]

FetchCases ==
  {FetchCase(ReadOk("data:"), ReadOk("0xowner"), MetaDoc(DocFull)),
   FetchCase(ReadRetryOk("data:"), ReadOk("0xowner"), MetaDoc(DocInactive)),
   FetchCase(ReadFail, ReadOk("0xowner"), MetaDoc(EmptyDoc))}

Rotations(case) == withRetry(case.uriAtt).rotations + withRetry(case.ownerAtt).rotations
ReadsOk(case) == withRetry(case.uriAtt).ok /\ withRetry(case.ownerAtt).ok /\ case.meta.k = "doc"

----------------------------------------------------------------------------
(* Environment                                                             *)

\* a new block on chain c; the process reads the height only at start
NewBlock(c) ==
  /\ pc \in Terminal
  /\ height[c] < MaxHeight
  /\ height' = [height EXCEPT ![c] = @ + 1]
  /\ UNCHANGED <<ledger, files, indexFile, run, pc, mem, hist, arg, res>>

\* the job is cancelled: the process dies wherever it is
Kill ==
  /\ pc \in Running \cup RunningLegacy
  /\ pc' = "idle"
  /\ mem' = IdleMem
  /\ hist' = FreshHist(NoExit,
                       ExitInfo(IF pc = "fetch" /\ hist.queued THEN "kill_boundary"
                                ELSE IF pc \in {"scan", "l_scan"} THEN "kill_scan"
                                ELSE "kill"),
                       {}, FALSE)
  /\ UNCHANGED <<ledger, height, files, indexFile, run, arg, res>>

\* the wall clock passes the deadline (Date.now() - startTime > DEADLINE_MS)
\* the flag is read at the head of the fetch loop only: passing the deadline
\* during the scan shows as passing it before the first batch
DeadlinePasses ==
  /\ pc \in {"fetch", "write", "save"}
  /\ ~mem.over
  /\ mem' = [mem EXCEPT !.over = TRUE]
  /\ UNCHANGED <<ledger, height, files, indexFile, run, pc, hist, arg, res>>

----------------------------------------------------------------------------
(* syncAgents (sync.mjs 234-407)                                           *)

\* the existing ids are taken from the agents list of the index
StartRun_idsFromIndex(force) ==
  /\ pc \in Terminal
  /\ run < MaxRuns
  /\ run' = run + 1
  /\ pc' = "init"
  /\ mem' = [IdleMem EXCEPT !.index = indexFile, !.forceRefresh = force,
                            !.existingIds = {indexFile.agents[k] : k \in 1..Len(indexFile.agents)}]
  /\ hist' = FreshHist(hist.exit, NoExit, FileIds, force)
  /\ UNCHANGED <<ledger, height, files, indexFile, arg, res>>

\* module load (72-75) and 235-250: read the index, list the record files
StartRun(force) ==
  /\ pc \in Terminal
  /\ run < MaxRuns
  /\ run' = run + 1
  /\ pc' = "init"
  /\ mem' = [IdleMem EXCEPT !.index = indexFile, !.forceRefresh = force,
                            !.existingIds = FileIds]
  /\ hist' = FreshHist(hist.exit, NoExit, FileIds, force)
  /\ UNCHANGED <<ledger, height, files, indexFile, arg, res>>

\* the pending queue alone decides, the force-refresh flag is not consulted
hasPending_ignoringForce ==
  /\ "pendingAgentIds" \in DOMAIN mem.index
  /\ Len(mem.index.pendingAgentIds) > 0

\* 258
hasPending ==
  /\ ~mem.forceRefresh
  /\ "pendingAgentIds" \in DOMAIN mem.index
  /\ Len(mem.index.pendingAgentIds) > 0

\* 260-265
Resume ==
  /\ pc = "init"
  /\ hasPending
  /\ mem' = [mem EXCEPT !.idsToSync = mem.index.pendingAgentIds,
                        !.block = [c \in Chains |-> mem.index[LastBlockField(c)]]]
  /\ pc' = "fetch"
  /\ hist' = [hist EXCEPT !.mode = "RESUME", !.queued = TRUE]
  /\ UNCHANGED <<ledger, height, files, indexFile, run, arg, res>>

\* the checkpoint is ignored: every scan starts at the floor
FromBlock_fromFloor(c) == StartBlock(c)

\* 275-281
FromBlock(c) ==
  IF mem.forceRefresh \/ mem.index[LastBlockField(c)] = 0
    THEN StartBlock(c)
    ELSE mem.index[LastBlockField(c)] + 1

\* 267-281: both getBlockNumber calls resolve
ScanStart ==
  /\ pc = "init"
  /\ ~hasPending
  /\ mem' = [mem EXCEPT !.block = height,
                        !.current = [c \in Chains |-> FromBlock(c)]]
  /\ pc' = "scan"
  /\ hist' = [hist EXCEPT
                !.mode = "SCAN",
                !.askedHeight = TRUE,
                !.from = [c \in Chains |-> FromBlock(c)],
                !.newMints = \E c \in Chains : \E e \in ledger[c] :
                               /\ e.blockNumber > mem.index[LastBlockField(c)]
                               /\ e.blockNumber <= height[c]]
  /\ UNCHANGED <<ledger, height, files, indexFile, run, arg, res>>

\* 267-270 and 409-412: a getBlockNumber call rejects, syncAgents rejects
HeightQueryFails ==
  /\ pc = "init"
  /\ ~hasPending
  /\ pc' = "aborted"
  /\ mem' = IdleMem
  /\ hist' = [hist EXCEPT !.mode = "SCAN", !.askedHeight = TRUE,
                          !.heightFailures = 1,
                          !.exit = ExitInfo("aborted")]
  /\ UNCHANGED <<ledger, height, files, indexFile, run, arg, res>>

\* getMintEvents 157
ChunkEnd(current, end, chunk) ==
  IF current + chunk > end THEN end ELSE current + chunk - 1

LogAttempts(c, lo, hi) ==
  {<<Ok(getLogs(c, lo, hi)), Ok(getLogs(c, lo, hi)), Ok(getLogs(c, lo, hi))>>,
   <<Fail(Str("timeout")), Ok(getLogs(c, lo, hi)), Ok(getLogs(c, lo, hi))>>,
   <<Fail(Str("timeout")), Fail(Str("timeout")), Fail(Str("rate limited"))>>}

\* getMintEvents 156-189: one iteration of the scan of chain c
ScanStep(c) ==
  /\ pc = "scan"
  /\ mem.current[c] <= mem.block[c]
  /\ LET chunkEnd == ChunkEnd(mem.current[c], mem.block[c], BlockChunk(c)) IN
     \E attempts \in LogAttempts(c, mem.current[c], chunkEnd) :
       /\ mem' = [mem EXCEPT !.allMints[c] = scanWindow(@, attempts),
                             !.current[c] = chunkEnd + 1]
       /\ hist' = [hist EXCEPT
                     !.askedLogs = TRUE,
                     !.failed[c] = IF withRetry(attempts).ok THEN @
                                   ELSE @ \cup {mem.current[c]}]
  /\ UNCHANGED <<ledger, height, files, indexFile, run, pc, arg, res>>

\* 292-297
RECURSIVE buildQueue(_, _, _, _)
buildQueue(entries, ethMints, forceRefresh, existingIds) ==
  IF entries = <<>> THEN <<>>
  ELSE LET mintInfo == Head(entries)
           rest == buildQueue(Tail(entries), ethMints, forceRefresh, existingIds)
       IN  IF forceRefresh \/ mintInfo.tokenId \notin existingIds
             THEN <<[id |-> mintInfo.tokenId, mintInfo |-> mintInfo,
                     chain |-> IF MapHas(ethMints, mintInfo.tokenId)
                                 THEN "ethereum" ELSE "base"]>> \o rest
             ELSE rest

\* the queue is built but not written to the index file before fetching
QueueAndCheckpoint_nosave ==
  /\ pc = "scan"
  /\ \A c \in Chains : mem.current[c] > mem.block[c]
  /\ LET idsToSync == buildQueue(mem.allMints.ethereum \o mem.allMints.base,
                                 mem.allMints.ethereum, mem.forceRefresh, mem.existingIds)
         index1 == SetField(SetField(SetField(mem.index,
                       "pendingAgentIds", idsToSync),
                       "ethLastBlock", mem.block.ethereum),
                       "baseLastBlock", mem.block.base)
     IN  /\ mem' = [mem EXCEPT !.idsToSync = idsToSync,
                               !.index = IF Len(idsToSync) > 0 THEN index1 ELSE @]
         /\ indexFile' = indexFile
         /\ hist' = [hist EXCEPT !.wroteIndex = Len(idsToSync) > 0, !.queued = TRUE]
  /\ pc' = "fetch"
  /\ UNCHANGED <<ledger, height, files, run, arg, res>>

\* 283-310: both scans are over; build the queue and checkpoint it
QueueAndCheckpoint ==
  /\ pc = "scan"
  /\ \A c \in Chains : mem.current[c] > mem.block[c]
  /\ LET idsToSync == buildQueue(mem.allMints.ethereum \o mem.allMints.base,
                                 mem.allMints.ethereum, mem.forceRefresh, mem.existingIds)
         index1 == SetField(SetField(SetField(mem.index,
                       "pendingAgentIds", idsToSync),
                       "ethLastBlock", mem.block.ethereum),
                       "baseLastBlock", mem.block.base)
     IN  /\ mem' = [mem EXCEPT !.idsToSync = idsToSync,
                               !.index = IF Len(idsToSync) > 0 THEN index1 ELSE @]
         /\ indexFile' = IF Len(idsToSync) > 0 THEN index1 ELSE indexFile
         /\ hist' = [hist EXCEPT !.wroteIndex = Len(idsToSync) > 0, !.queued = TRUE]
  /\ pc' = "fetch"
  /\ UNCHANGED <<ledger, height, files, run, arg, res>>

\* 331-335: the batch at position i and what its fetches meet.  rot[n] tells
\* whether a retry of the batch (of this fetch or of a sibling) has replaced
\* the module's clients before the n-th record is assembled.
FetchBatch ==
  /\ pc = "fetch"
  /\ mem.i < Len(mem.idsToSync)
  /\ ~mem.over
  /\ LET batch == Slice2(mem.idsToSync, mem.i, mem.i + PARALLEL_FETCHES)
         N == 1..Len(batch)
     IN  \E cases \in [N -> FetchCases], rot \in [N -> BOOLEAN] :
           /\ \A n \in N : Rotations(cases[n]) > 0 => rot[n]
           /\ \A n \in N : rot[n] => \E m \in N : Rotations(cases[m]) > 0
           /\ LET out == [n \in N |->
                            fetchAgent(batch[1].chain = "ethereum" /\ ~rot[n],
                                       batch[n].id, batch[n].mintInfo,
                                       cases[n].uriAtt, cases[n].ownerAtt,
                                       cases[n].firstReject, cases[n].meta, run)]
              IN  IF \E n \in N : out[n].raised
                    THEN \* Promise.all rejects, syncAgents rejects, exit(1)
                         /\ pc' = "aborted"
                         /\ mem' = IdleMem
                         /\ hist' = [hist EXCEPT !.fetched = @ \o batch,
                                                 !.batches = @ + 1,
                                                 !.exit = ExitInfo("aborted")]
                    ELSE /\ pc' = "write"
                         /\ mem' = [mem EXCEPT !.results = [n \in N |-> out[n].rec], !.j = 0]
                         /\ hist' = [hist EXCEPT
                                       !.fetched = @ \o batch,
                                       !.batches = @ + 1,
                                       !.okReads = [n \in N |-> ReadsOk(cases[n])]]
  /\ UNCHANGED <<ledger, height, files, indexFile, run, arg, res>>

\* 337-351: tally one result and write its record file
WriteRecord ==
  /\ pc = "write"
  /\ mem.j < Len(mem.results)
  /\ LET agent == mem.results[mem.j + 1] IN
     /\ mem' = [mem EXCEPT !.stats = TallyFetched(@, agent),
                           !.existingIds = IF Truthy(Get(agent, "error")) THEN @
                                           ELSE @ \cup {agent.id},
                           !.j = @ + 1]
     /\ files' = [files EXCEPT ![agent.id] = JSONRoundTrip(agent)]
     /\ pc' = IF mem.j + 1 = Len(mem.results) THEN "save" ELSE "write"
  /\ hist' = [hist EXCEPT !.written = Append(@, mem.results[mem.j + 1].id),
                          !.okIds = IF Truthy(Get(mem.results[mem.j + 1], "error")) THEN @
                                    ELSE @ \cup {mem.results[mem.j + 1].id}]
  /\ UNCHANGED <<ledger, height, indexFile, run, arg, res>>

\* the loop index advances by one entry less than a batch
SaveProgress_shortStride ==
  /\ pc = "save"
  /\ LET processed == mem.i + Len(mem.results)
         index1 == SetField(mem.index, "pendingAgentIds", Slice(mem.idsToSync, processed))
     IN  /\ mem' = [mem EXCEPT !.index = index1, !.i = @ + PARALLEL_FETCHES - 1,
                               !.results = <<>>, !.j = 0]
         /\ indexFile' = index1
  /\ pc' = "fetch"
  /\ hist' = [hist EXCEPT !.wroteIndex = TRUE, !.okReads = <<>>]
  /\ UNCHANGED <<ledger, height, files, run, arg, res>>

\* 353-359 and 320: save the shrunken queue, i += PARALLEL_FETCHES
SaveProgress ==
  /\ pc = "save"
  /\ LET processed == mem.i + Len(mem.results)
         index1 == SetField(mem.index, "pendingAgentIds", Slice(mem.idsToSync, processed))
     IN  /\ mem' = [mem EXCEPT !.index = index1, !.i = @ + PARALLEL_FETCHES,
                               !.results = <<>>, !.j = 0]
         /\ indexFile' = index1
  /\ pc' = "fetch"
  /\ hist' = [hist EXCEPT !.wroteIndex = TRUE, !.okReads = <<>>]
  /\ UNCHANGED <<ledger, height, files, run, arg, res>>

\* the deadline is honoured between the records of a batch as well
DeadlineExit_midBatch ==
  /\ pc \in {"fetch", "write", "save"}
  /\ mem.i < Len(mem.idsToSync)
  /\ mem.over
  /\ LET index1 == SetField(mem.index, "pendingAgentIds", Slice(mem.idsToSync, mem.i))
     IN  /\ mem' = IdleMem
         /\ indexFile' = index1
  /\ pc' = "checkpoint_exit"
  /\ hist' = [hist EXCEPT !.wroteIndex = TRUE, !.exit = ExitInfo("deadline")]
  /\ UNCHANGED <<ledger, height, files, run, arg, res>>

\* 322-329 and 364-367: the deadline has passed before a batch
DeadlineExit ==
  /\ pc = "fetch"
  /\ mem.i < Len(mem.idsToSync)
  /\ mem.over
  /\ LET index1 == SetField(mem.index, "pendingAgentIds", Slice(mem.idsToSync, mem.i))
     IN  /\ mem' = IdleMem
         /\ indexFile' = index1
  /\ pc' = "checkpoint_exit"
  /\ hist' = [hist EXCEPT !.wroteIndex = TRUE, !.exit = ExitInfo("deadline")]
  /\ UNCHANGED <<ledger, height, files, run, arg, res>>

\* the final index is written wherever the fetch loop stands
Finalize_early ==
  /\ pc = "fetch"
  /\ LET stats == TallyExistingAll(mem.stats, mem.existingIds \ QueueIds(mem.idsToSync))
         allIds == SortDesc(mem.existingIds)
         index1 == [lastSync |-> run,
                    ethLastBlock |-> mem.block.ethereum,
                    baseLastBlock |-> mem.block.base,
                    totalAgents |-> Len(allIds),
                    agents |-> allIds,
                    stats |-> [ethereum |-> stats.ethereum, base |-> stats.base,
                               totalErrors |-> stats.ethereum.errors + stats.base.errors]]
     IN  /\ mem' = IdleMem
         /\ indexFile' = index1
  /\ pc' = "done"
  /\ hist' = [hist EXCEPT !.wroteIndex = TRUE, !.exit = ExitInfo("done")]
  /\ UNCHANGED <<ledger, height, files, run, arg, res>>

\* 369-401: fold the untouched records into the tally, write the final index
Finalize ==
  /\ pc = "fetch"
  /\ mem.i >= Len(mem.idsToSync)
  /\ LET stats == TallyExistingAll(mem.stats, mem.existingIds \ QueueIds(mem.idsToSync))
         allIds == SortDesc(mem.existingIds)
         index1 == [lastSync |-> run,
                    ethLastBlock |-> mem.block.ethereum,
                    baseLastBlock |-> mem.block.base,
                    totalAgents |-> Len(allIds),
                    agents |-> allIds,
                    stats |-> [ethereum |-> stats.ethereum, base |-> stats.base,
                               totalErrors |-> stats.ethereum.errors + stats.base.errors]]
     IN  /\ mem' = IdleMem
         /\ indexFile' = index1
  /\ pc' = "done"
  /\ hist' = [hist EXCEPT !.wroteIndex = TRUE, !.exit = ExitInfo("done")]
  /\ UNCHANGED <<ledger, height, files, run, arg, res>>

\* 303-309, 322-329, 357-359, 399-401: writeFileSync of the index throws; none
\* of the four writes is inside a try block, so syncAgents rejects (409-412)
IndexWriteFails ==
  /\ \/ /\ pc = "scan"
        /\ \A c \in Chains : mem.current[c] > mem.block[c]
        /\ Len(buildQueue(mem.allMints.ethereum \o mem.allMints.base,
                          mem.allMints.ethereum, mem.forceRefresh, mem.existingIds)) > 0
     \/ pc = "save"
     \/ /\ pc = "fetch"
        /\ mem.over \/ mem.i >= Len(mem.idsToSync)
  /\ pc' = "aborted"
  /\ mem' = IdleMem
  /\ hist' = [hist EXCEPT !.writeFailed = TRUE, !.exit = ExitInfo("aborted")]
  /\ UNCHANGED <<ledger, height, files, indexFile, run, arg, res>>

----------------------------------------------------------------------------
(* The sync job over several process starts                                *)

Init ==
  /\ ledger \in LedgerChoices
  /\ height = [c \in Chains |-> InitialHeight]
  /\ files = [id \in Ids |-> NoFile]
  /\ indexFile = DefaultIndex
  /\ run = 0
  /\ pc = "idle"
  /\ mem = IdleMem
  /\ hist = FreshHist(NoExit, NoExit, {}, FALSE)
  /\ arg = <<>>
  /\ res = <<>>

Next ==
  \/ \E c \in Chains : NewBlock(c)
  \/ Kill
  \/ DeadlinePasses
  \/ \E force \in BOOLEAN : StartRun(force)
  \/ Resume
  \/ ScanStart
  \/ HeightQueryFails
  \/ \E c \in Chains : ScanStep(c)
  \/ QueueAndCheckpoint
  \/ FetchBatch
  \/ WriteRecord
  \/ SaveProgress
  \/ DeadlineExit
  \/ Finalize
  \/ IndexWriteFails

Spec == Init /\ [][Next]_vars

\* the steps of a started process; each await of syncAgents settles and the
\* code between two awaits runs to completion, so a process that is not
\* killed keeps taking steps
ProcessStep ==
  \/ Resume
  \/ ScanStart
  \/ HeightQueryFails
  \/ \E c \in Chains : ScanStep(c)
  \/ QueueAndCheckpoint
  \/ FetchBatch
  \/ WriteRecord
  \/ SaveProgress
  \/ DeadlineExit
  \/ Finalize
  \/ IndexWriteFails

\* runs that are left to go on: no kill
NextLive ==
  \/ \E c \in Chains : NewBlock(c)
  \/ DeadlinePasses
  \/ \E force \in BOOLEAN : StartRun(force)
  \/ ProcessStep

SpecLive == Init /\ [][NextLive]_vars /\ WF_vars(ProcessStep)

TypeOK ==
  /\ pc \in Terminal \cup Running \cup RunningLegacy
  /\ run \in 0..MaxRuns
  /\ \A c \in Chains : height[c] \in InitialHeight..MaxHeight

----------------------------------------------------------------------------
(* The scanner revision of unnamed/part_001: no pending queue, the two     *)
(* scans run one after the other and getMintEvents writes the chain's      *)
(* checkpoint into the index file every CHECKPOINT_CHUNKS windows.         *)

NaN == 0 - 1

\* part_001 308-311: the counters x402 and withServices do not exist at first
ZeroStatsLegacy ==
  [c \in Chains |-> [active |-> 0, inactive |-> 0, errors |-> 0]]

\* counter++ : undefined++ and NaN++ give NaN
BumpLegacy(stats, c, k) ==
  IF k \in DOMAIN stats[c] /\ stats[c][k] # NaN
    THEN [stats EXCEPT ![c][k] = @ + 1]
    ELSE [stats EXCEPT ![c] = SetField(@, k, NaN)]

\* part_001 325-328 and 349-352
TallyFieldsLegacy(stats, agent) ==
  LET c == ChainStatsOf(agent)
      s1 == IF Truthy(Get(agent, "active")) THEN BumpLegacy(stats, c, "active")
            ELSE BumpLegacy(stats, c, "inactive")
      s2 == IF Truthy(Get(agent, "x402Support")) THEN BumpLegacy(s1, c, "x402") ELSE s1
      s3 == IF LengthPositive(Get(agent, "services")) THEN BumpLegacy(s2, c, "withServices")
            ELSE s2
  IN  s3

\* part_001 321-330
TallyFetchedLegacy(stats, agent) ==
  IF Truthy(Get(agent, "error")) THEN BumpLegacy(stats, ChainStatsOf(agent), "errors")
  ELSE TallyFieldsLegacy(stats, agent)

RECURSIVE TallyExistingAllLegacy(_, _)
TallyExistingAllLegacy(stats, ids) ==
  IF ids = {} THEN stats
  ELSE LET id == Min(ids) IN
       TallyExistingAllLegacy(
         IF files[id] # NoFile /\ ~Truthy(Get(files[id], "error"))
           THEN TallyFieldsLegacy(stats, files[id]) ELSE stats,
         ids \ {id})

\* part_001 68-71 and 258-288: load the index, read both heights, list the files
LegacyStart(force) ==
  /\ pc \in Terminal
  /\ run < MaxRuns
  /\ run' = run + 1
  /\ pc' = "l_scan"
  /\ mem' = [IdleMem EXCEPT
               !.index = indexFile, !.forceRefresh = force, !.existingIds = FileIds,
               !.block = height, !.stats = ZeroStatsLegacy,
               !.current = [c \in Chains |->
                              IF force \/ indexFile[LastBlockField(c)] = 0
                                THEN StartBlock(c)
                                ELSE indexFile[LastBlockField(c)] + 1]]
  /\ hist' = [FreshHist(hist.exit, NoExit, FileIds, force) EXCEPT
                !.mode = "SCAN", !.askedHeight = TRUE,
                !.from = [c \in Chains |->
                            IF force \/ indexFile[LastBlockField(c)] = 0
                              THEN StartBlock(c)
                              ELSE indexFile[LastBlockField(c)] + 1]]
  /\ UNCHANGED <<ledger, height, files, indexFile, arg, res>>

\* part_001 264-267 and 381-384: a getBlockNumber call rejects
LegacyHeightQueryFails ==
  /\ pc \in Terminal
  /\ run < MaxRuns
  /\ run' = run + 1
  /\ pc' = "aborted"
  /\ mem' = IdleMem
  /\ hist' = [FreshHist(hist.exit, NoExit, FileIds, FALSE) EXCEPT
                !.mode = "SCAN", !.askedHeight = TRUE, !.heightFailures = 1,
                !.exit = [NoExit EXCEPT !.kind = "aborted"]]
  /\ UNCHANGED <<ledger, height, files, indexFile, arg, res>>

\* part_001 159-213: one iteration of the scan of chain c, with its checkpoint
LegacyScanStep(c) ==
  /\ pc = "l_scan"
  /\ c = "base" => mem.current.ethereum > mem.block.ethereum    \* 291-292: sequential
  /\ mem.current[c] <= mem.block[c]
  /\ LET chunkEnd == ChunkEnd(mem.current[c], mem.block[c], BlockChunk(c))
         chunksProcessed == mem.chunksProcessed[c] + 1
         checkpoint == chunksProcessed % CHECKPOINT_CHUNKS = 0
         \* 198-202: isEth ? indexRef.ethLastBlock : indexRef.baseLastBlock
         index1 == IF checkpoint
                     THEN SetField(mem.index,
                                   IF c = "ethereum" THEN "ethLastBlock" ELSE "baseLastBlock",
                                   chunkEnd)
                     ELSE mem.index
     IN  \E attempts \in LogAttempts(c, mem.current[c], chunkEnd),
            \* 203-208: writeFileSync returns or throws; the catch logs only
            written \in IF checkpoint THEN BOOLEAN ELSE {TRUE} :
           /\ mem' = [mem EXCEPT !.allMints[c] = scanWindow(@, attempts),
                                 !.chunksProcessed[c] = chunksProcessed,
                                 !.index = index1,
                                 !.current[c] = chunkEnd + 1]
           /\ indexFile' = IF checkpoint /\ written THEN index1 ELSE indexFile
           /\ hist' = [hist EXCEPT
                         !.askedLogs = TRUE,
                         !.failed[c] = IF withRetry(attempts).ok THEN @
                                       ELSE @ \cup {mem.current[c]},
                         !.wroteIndex = @ \/ (checkpoint /\ written),
                         !.writeFailed = @ \/ ~written]
  /\ UNCHANGED <<ledger, height, files, run, pc, arg, res>>

\* part_001 298-304: mintInfo === ethMints.get(tokenId) ? 'ethereum' : 'base'
RECURSIVE buildQueueLegacy(_, _, _, _)
buildQueueLegacy(entries, chain, forceRefresh, existingIds) ==
  IF entries = <<>> THEN <<>>
  ELSE LET mintInfo == Head(entries)
           rest == buildQueueLegacy(Tail(entries), chain, forceRefresh, existingIds)
       IN  IF forceRefresh \/ mintInfo.tokenId \notin existingIds
             THEN <<[id |-> mintInfo.tokenId, mintInfo |-> mintInfo, chain |-> chain]>> \o rest
             ELSE rest

\* part_001 294-311
LegacyBuildQueue ==
  /\ pc = "l_scan"
  /\ \A c \in Chains : mem.current[c] > mem.block[c]
  /\ mem' = [mem EXCEPT !.idsToSync =
               buildQueueLegacy(mem.allMints.ethereum, "ethereum", mem.forceRefresh,
                                mem.existingIds)
               \o buildQueueLegacy(mem.allMints.base, "base", mem.forceRefresh,
                                   mem.existingIds)]
  /\ pc' = "l_fetch"
  /\ hist' = [hist EXCEPT !.queued = TRUE]
  /\ UNCHANGED <<ledger, height, files, indexFile, run, arg, res>>

\* part_001 313-318
LegacyFetchBatch ==
  /\ pc = "l_fetch"
  /\ mem.i < Len(mem.idsToSync)
  /\ LET batch == Slice2(mem.idsToSync, mem.i, mem.i + PARALLEL_FETCHES)
         N == 1..Len(batch)
     IN  \E cases \in [N -> FetchCases], rot \in [N -> BOOLEAN] :
           /\ \A n \in N : Rotations(cases[n]) > 0 => rot[n]
           /\ \A n \in N : rot[n] => \E m \in N : Rotations(cases[m]) > 0
           /\ LET out == [n \in N |->
                            fetchAgent(batch[1].chain = "ethereum" /\ ~rot[n],
                                       batch[n].id, batch[n].mintInfo,
                                       cases[n].uriAtt, cases[n].ownerAtt,
                                       cases[n].firstReject, cases[n].meta, run)]
              IN  IF \E n \in N : out[n].raised
                    THEN /\ pc' = "aborted"
                         /\ mem' = IdleMem
                         /\ hist' = [hist EXCEPT !.fetched = @ \o batch,
                                                 !.exit = ExitInfo("aborted")]
                    ELSE /\ pc' = "l_write"
                         /\ mem' = [mem EXCEPT !.results = [n \in N |-> out[n].rec], !.j = 0]
                         /\ hist' = [hist EXCEPT !.fetched = @ \o batch]
  /\ UNCHANGED <<ledger, height, files, indexFile, run, arg, res>>

\* part_001 320-341: tally one result and write its record file
LegacyWriteRecord ==
  /\ pc = "l_write"
  /\ mem.j < Len(mem.results)
  /\ LET agent == mem.results[mem.j + 1]
         last == mem.j + 1 = Len(mem.results)
     IN
     /\ mem' = [mem EXCEPT !.stats = TallyFetchedLegacy(@, agent),
                           !.existingIds = IF Truthy(Get(agent, "error")) THEN @
                                           ELSE @ \cup {agent.id},
                           !.j = IF last THEN 0 ELSE @ + 1,
                           !.results = IF last THEN <<>> ELSE @,
                           !.i = IF last THEN @ + PARALLEL_FETCHES ELSE @]
     /\ files' = [files EXCEPT ![agent.id] = JSONRoundTrip(agent)]
     /\ pc' = IF last THEN "l_fetch" ELSE "l_write"
     /\ hist' = [hist EXCEPT !.written = Append(@, agent.id)]
  /\ UNCHANGED <<ledger, height, indexFile, run, arg, res>>

\* part_001 343-373
LegacyFinalize ==
  /\ pc = "l_fetch"
  /\ mem.i >= Len(mem.idsToSync)
  /\ LET stats == TallyExistingAllLegacy(mem.stats, mem.existingIds \ QueueIds(mem.idsToSync))
         allIds == SortDesc(mem.existingIds)
         index1 == [lastSync |-> run,
                    ethLastBlock |-> mem.block.ethereum,
                    baseLastBlock |-> mem.block.base,
                    totalAgents |-> Len(allIds),
                    agents |-> allIds,
                    stats |-> [ethereum |-> stats.ethereum, base |-> stats.base,
                               totalErrors |-> stats.ethereum.errors + stats.base.errors]]
     IN  indexFile' = index1
  /\ mem' = IdleMem
  /\ pc' = "done"
  /\ hist' = [hist EXCEPT !.wroteIndex = TRUE, !.exit = ExitInfo("done")]
  /\ UNCHANGED <<ledger, height, files, run, arg, res>>

NextLegacy ==
  \/ \E c \in Chains : NewBlock(c)
  \/ Kill
  \/ \E force \in BOOLEAN : LegacyStart(force)
  \/ LegacyHeightQueryFails
  \/ \E c \in Chains : LegacyScanStep(c)
  \/ LegacyBuildQueue
  \/ LegacyFetchBatch
  \/ LegacyWriteRecord
  \/ LegacyFinalize

SpecLegacy == Init /\ [][NextLegacy]_vars

\* C3: a run without force-refresh that follows a run killed during its scan
\* and reaches DONE leaves a record file for every mint event at or below
\* the persisted checkpoint of its chain (no window query having failed in
\* either run).
C3_NoMintLostByScanKill ==
  (/\ pc = "done"
   /\ hist.prev.kind = "kill_scan"
   /\ ~hist.prev.failed
   /\ ~hist.force
   /\ \A c \in Chains : hist.failed[c] = {})
  => \A c \in Chains : \A e \in ledger[c] :
       e.blockNumber <= indexFile[LastBlockField(c)] => files[e.tokenId] # NoFile

----------------------------------------------------------------------------
(* fetchAgent on its own: every combination of ledger-read outcomes,       *)
(* metadata outcomes and document fields                                   *)

\* no process, nothing on disk
OrchIdle ==
  /\ ledger = CandidateMints
  /\ height = [c \in Chains |-> InitialHeight]
  /\ files = [id \in Ids |-> NoFile]
  /\ indexFile = DefaultIndex
  /\ run = 0
  /\ pc = "idle"
  /\ mem = IdleMem
  /\ hist = FreshHist(NoExit, NoExit, {}, FALSE)

ReadFailEmpty == <<Fail(Str("timeout")), Fail(Str("timeout")), Fail(Str(""))>>
ReadFailNoMessage == <<Fail(Str("timeout")), Fail(Str("timeout")), Fail(UNDEF)>>

NameValues == {UNDEF, NULL, Str(""), Str("Bot")}
FlagValues == {UNDEF, NULL, JTrue, JFalse}
ServicesValues == {UNDEF, NULL, List(<<>>), List(<<"mcp">>)}
TextValues == {UNDEF, Str("about")}

\* documents; a key holding undefined reads like a missing key
Documents ==
  [name : NameValues, description : TextValues, active : FlagValues,
   x402Support : FlagValues, services : ServicesValues]

MetaOutcomes ==
  {MetaDoc(d) : d \in Documents} \cup
  {MetaDoc(EmptyDoc), MetaNoValue, MetaNull,
   MetaReject(Str("Unexpected token")), MetaReject(Str("")), MetaReject(UNDEF)}

FetchArgs ==
  [clientIsEth : BOOLEAN,
   id : Ids,
   mintInfo : {MintEvent("ethereum", 1, 3), [MintEvent("ethereum", 1, 0) EXCEPT !.txHash = ""]},
   uriAtt : {ReadOk("ipfs://cid"), ReadRetryOk("ipfs://cid"), ReadFail, ReadFailEmpty,
             ReadFailNoMessage},
   ownerAtt : {ReadOk("0xowner"), ReadFail, ReadFailEmpty},
   firstReject : {"uri", "owner"},
   meta : MetaOutcomes]

InitFetch ==
  /\ OrchIdle
  /\ arg \in FetchArgs
  /\ res = <<>>

ApplyFetchAgent ==
  /\ res = <<>>
  /\ res' = <<fetchAgent(arg.clientIsEth, arg.id, arg.mintInfo, arg.uriAtt, arg.ownerAtt,
                         arg.firstReject, arg.meta, 1)>>
  /\ UNCHANGED <<orchVars, arg>>

NextFetch == ApplyFetchAgent

SpecFetch == InitFetch /\ [][NextFetch]_vars

NormalKeys ==
  {"id", "owner", "chain", "name", "description", "image", "active", "x402Support",
   "services", "registeredBlock", "txHash", "rawMetadata", "syncedAt"}
ErrorKeys == {"id", "error", "chain", "syncedAt"}

IsNormalRecord(rec) == DOMAIN rec = NormalKeys
IsErrorRecord(rec) == DOMAIN rec = ErrorKeys

ArgReadsOk == withRetry(arg.uriAtt).ok /\ withRetry(arg.ownerAtt).ok

\* C8: fetchAgent resolves, for every outcome of the two ledger reads and of
\* the metadata resolution, to a normal record or to an error-tagged record
\* of the requested id; it never raises to its caller.
C8_AlwaysReturnsRecord ==
  \A n \in 1..Len(res) :
    /\ ~res[n].raised
    /\ IsNormalRecord(res[n].rec) \/ IsErrorRecord(res[n].rec)
    /\ res[n].rec.id = arg.id
    /\ IsNormalRecord(res[n].rec) <=> (ArgReadsOk /\ arg.meta.k = "doc")

\* a ledger read has exhausted its retries and fetchAgent has returned
C8_Witness ==
  /\ Len(res) = 1
  /\ ~withRetry(arg.ownerAtt).ok
  /\ IsErrorRecord(res[1].rec)

\* a metadata resolution without value has been turned into an error record
C8_WitnessNoValue ==
  /\ Len(res) = 1
  /\ ArgReadsOk
  /\ arg.meta.k = "undefined"
  /\ IsErrorRecord(res[1].rec)

\* a key counts as present when it holds a value (null counts as missing)
Present(v) == v \notin {UNDEF, NULL}
FallbackName(id) == Str("Agent #" \o ToString(id))

\* C10 as stated: each field equals the document's value if the key is
\* present, and its fallback otherwise.
C10_FallbackIfPresent ==
  \A n \in 1..Len(res) :
    IsNormalRecord(res[n].rec) =>
      LET d == arg.meta.d
          r == res[n].rec
      IN  /\ r.name = IF Present(Get(d, "name")) THEN Get(d, "name") ELSE FallbackName(arg.id)
          /\ r.active = IF Present(Get(d, "active")) THEN Get(d, "active") ELSE JTrue
          /\ r.x402Support = IF Present(Get(d, "x402Support")) THEN Get(d, "x402Support")
                             ELSE JFalse
          /\ r.services = IF Present(Get(d, "services")) THEN Get(d, "services")
                          ELSE List(<<>>)

\* values that name and services replace by their fallback (falsy values)
Falsy == {UNDEF, NULL, JFalse, Str("")}
\* values that active and x402Support replace by their fallback
Missing == {UNDEF, NULL}

\* C10 amended: name and services equal the document's value unless it is
\* missing or falsy (null, empty string), active and x402Support equal the
\* document's value unless it is missing or null; otherwise the fallbacks
\* "Agent #<id>", the empty list, true and false apply.  The empty document
\* gets all four fallbacks.
C10_FallbackIfUsable ==
  \A n \in 1..Len(res) :
    IsNormalRecord(res[n].rec) =>
      LET d == arg.meta.d
          r == res[n].rec
      IN  /\ r.name = IF Get(d, "name") \notin Falsy THEN Get(d, "name")
                      ELSE FallbackName(arg.id)
          /\ r.active = IF Get(d, "active") \notin Missing THEN Get(d, "active") ELSE JTrue
          /\ r.x402Support = IF Get(d, "x402Support") \notin Missing
                               THEN Get(d, "x402Support") ELSE JFalse
          /\ r.services = IF Get(d, "services") \notin Falsy THEN Get(d, "services")
                          ELSE List(<<>>)
          /\ d = EmptyDoc =>
               /\ r.name = FallbackName(arg.id)
               /\ r.active = JTrue
               /\ r.x402Support = JFalse
               /\ r.services = List(<<>>)

\* a document with a name but without active, x402Support and services
C10_Witness ==
  /\ Len(res) = 1
  /\ IsNormalRecord(res[1].rec)
  /\ Get(arg.meta.d, "name") = Str("Bot")
  /\ Get(arg.meta.d, "active") = UNDEF
  /\ Get(arg.meta.d, "services") = UNDEF
  /\ res[1].rec.name = Str("Bot")
  /\ res[1].rec.active = JTrue
  /\ res[1].rec.services = List(<<>>)

----------------------------------------------------------------------------
(* getMintEvents on its own: any sequence of window results, the same      *)
(* event possibly returned more than once                                  *)

\* events as getLogs may return them; an id may come back with another block
MintLogs ==
  {[tokenId |-> id, to |-> "0xowner", blockNumber |-> b, txHash |-> "0xt" \o ToString(b)] :
     id \in Ids, b \in 1..2}

LogSeqs == {<<>>} \cup {<<a>> : a \in MintLogs} \cup {<<a, b>> : a \in MintLogs, b \in MintLogs}

MintAttempts ==
  {<<Ok(l), Ok(l), Ok(l)>> : l \in LogSeqs} \cup
  {<<Fail(Str("timeout")), Fail(Str("timeout")), Ok(l)>> : l \in LogSeqs} \cup
  {<<Fail(Str("timeout")), Fail(Str("timeout")), Fail(Str("rate limited"))>>}

\* arg: the results of the window queries so far; res: allMints
InitMint ==
  /\ OrchIdle
  /\ arg = <<>>
  /\ res = <<>>

FeedWindow ==
  /\ Len(arg) < MaxWindows
  /\ \E attempts \in MintAttempts :
       /\ arg' = Append(arg, withRetry(attempts))
       /\ res' = scanWindow(res, attempts)
  /\ UNCHANGED orchVars

NextMint == FeedWindow

SpecMint == InitMint /\ [][NextMint]_vars

\* the logs the scan has seen, in order
RECURSIVE SeenLogs(_)
SeenLogs(results) ==
  IF results = <<>> THEN <<>>
  ELSE (IF Head(results).ok THEN Head(results).v ELSE <<>>) \o SeenLogs(Tail(results))

FirstIndexOf(logs, id) == Min({k \in 1..Len(logs) : logs[k].tokenId = id})

\* C7: whatever the windows returned, the map holds each id seen exactly
\* once (and no other id), with the mint info of the first event seen for it.
C7_EachIdOnceFirstWins ==
  LET seen == SeenLogs(arg) IN
  /\ \A k, l \in 1..Len(res) : res[k].tokenId = res[l].tokenId => k = l
  /\ \A id \in Ids : MapHas(res, id) <=> \E k \in 1..Len(seen) : seen[k].tokenId = id
  /\ \A k \in 1..Len(res) :
       LET first == seen[FirstIndexOf(seen, res[k].tokenId)] IN
       /\ res[k].blockNumber = first.blockNumber
       /\ res[k].txHash = first.txHash
       /\ res[k].to = first.to

\* an id was returned twice with different blocks and is held once
C7_Witness ==
  LET seen == SeenLogs(arg) IN
  /\ \E k, l \in 1..Len(seen) :
       /\ k < l
       /\ seen[k].tokenId = seen[l].tokenId
       /\ seen[k].blockNumber # seen[l].blockNumber
  /\ Len(res) = 1

----------------------------------------------------------------------------
(* Claims about the sync job (Spec)                                        *)

IsPrefix(p, q) == Len(p) <= Len(q) /\ SubSeq(q, 1, Len(p)) = p

PendingOnDisk ==
  IF "pendingAgentIds" \in DOMAIN indexFile THEN indexFile.pendingAgentIds ELSE <<>>

\* the run follows a run that was stopped between two batches (deadline exit,
\* or kill after the index write) and is not a force-refresh run
AfterInterruptedFetch ==
  /\ hist.prev.kind \in {"deadline", "kill_boundary"}
  /\ hist.prev.n > 0
  /\ ~hist.force
  /\ hist.mode # "none"

ResumesExactlyTheTail ==
  /\ hist.mode = "RESUME"
  /\ IsPrefix(hist.fetched, hist.prev.tail)
  /\ pc = "done" => /\ hist.fetched = hist.prev.tail
                    /\ FileIds = hist.prev.expect

\* C1 as stated: after an interruption following any number k of completed
\* batches, the next run without force-refresh takes RESUME, fetches exactly
\* the entries after the first k batches, and at DONE the record files are
\* those of an uninterrupted run.
C1_ResumeAfterAnyBatch == AfterInterruptedFetch => ResumesExactlyTheTail

\* C1 amended: the same, for every k that leaves at least one entry of the
\* queue unprocessed.
C1_ResumeWhileTailLeft ==
  (AfterInterruptedFetch /\ hist.prev.tail # <<>>) => ResumesExactlyTheTail

\* a resumed run has reached DONE after a run that had completed one batch
\* of a longer queue
C1_Witness ==
  /\ AfterInterruptedFetch
  /\ hist.prev.tail # <<>>
  /\ Len(hist.prev.tail) < hist.prev.n
  /\ pc = "done"

\* C2: from the decision of the queue (persisted by SCAN, or taken over by
\* RESUME) to the final index write, every queue entry has had its record
\* file written in this run or is in pendingAgentIds of the index on disk;
\* this holds in particular once the first fetch has been issued.
C2_QueueEntryWrittenOrPending ==
  (hist.queued /\ pc \in {"fetch", "write", "save"}) =>
    \A p \in 1..Len(mem.idsToSync) :
      \/ p <= Len(hist.written) /\ hist.written[p] = mem.idsToSync[p].id
      \/ \E q \in 1..Len(PendingOnDisk) : PendingOnDisk[q] = mem.idsToSync[p]

\* the first record of a batch is written, the rest of the queue is pending
C2_Witness ==
  /\ pc = "write"
  /\ hist.mode = "SCAN"
  /\ Len(hist.written) = 1
  /\ Len(mem.idsToSync) > PARALLEL_FETCHES

\* C4: once the run has written the index, the persisted checkpoint of a
\* chain is below the first block of every window of that chain whose log
\* query failed in this run.
C4_CheckpointBelowFailedWindow ==
  hist.wroteIndex =>
    \A c \in Chains : \A lo \in hist.failed[c] : indexFile[LastBlockField(c)] < lo

\* the run is a scan without force-refresh that follows a run that reached
\* DONE, and no mint event lies above the persisted checkpoints
SecondRunNoNewMints ==
  /\ hist.prev.kind = "done"
  /\ ~hist.force
  /\ hist.mode = "SCAN"
  /\ ~hist.newMints

\* C5: a run without force-refresh that follows a run that reached DONE,
\* with no new mint event on either chain, fetches no entity and writes no
\* record file.
C5_SecondRunFetchesNothing ==
  SecondRunNoNewMints => (hist.fetched = <<>> /\ hist.written = <<>>)

\* in a run that follows DONE without new mints, record files are untouched
C5_RecordsUntouched == [][SecondRunNoNewMints => files' = files]_vars

\* such a second run has reached DONE with record files on disk, after a
\* first run in which a window query failed
C5_Witness ==
  /\ SecondRunNoNewMints
  /\ pc = "done"
  /\ FileIds # {}
  /\ \E c \in Chains : \E e \in ledger[c] :
       e.blockNumber <= indexFile[LastBlockField(c)] /\ files[e.tokenId] = NoFile

Counters == {"active", "inactive", "errors", "x402", "withServices"}

\* the counter k of chain c recomputed from the record files on disk, each
\* record counted for the chain the tally attributes it to
Recount(c, k) ==
  LET recs == {id \in FileIds : ChainStatsOf(files[id]) = c}
      isErr(id) == Truthy(Get(files[id], "error"))
  IN  Cardinality(
        {id \in recs :
           CASE k = "errors" -> isErr(id)
             [] k = "active" -> ~isErr(id) /\ Truthy(Get(files[id], "active"))
             [] k = "inactive" -> ~isErr(id) /\ ~Truthy(Get(files[id], "active"))
             [] k = "x402" -> ~isErr(id) /\ Truthy(Get(files[id], "x402Support"))
             [] k = "withServices" -> ~isErr(id) /\ LengthPositive(Get(files[id], "services"))})

\* C6: at DONE every per-chain counter of the persisted stats equals the
\* count recomputed from the record files on disk.
C6_StatsMatchRecount ==
  pc = "done" => \A c \in Chains : \A k \in Counters : indexFile.stats[c][k] = Recount(c, k)

BatchStart == Len(hist.fetched) - Len(hist.okReads)

\* C9: in a batch in which a fetch fails, every fetch whose reads and
\* metadata resolution succeed yields a non-error record of its id, that
\* record is written to the id's file, it is what the file holds at the end
\* of the batch unless a later entry of the batch has the same id, and a
\* failed fetch never aborts the run.
C9_BatchIsolation ==
  /\ (pc \in {"write", "save"} /\ \E m \in 1..Len(hist.okReads) : ~hist.okReads[m]) =>
       \A n \in 1..Len(hist.okReads) :
         hist.okReads[n] =>
           /\ IsNormalRecord(mem.results[n])
           /\ mem.results[n].id = hist.fetched[BatchStart + n].id
           /\ n = mem.j => files[mem.results[n].id] = JSONRoundTrip(mem.results[n])
           /\ (pc = "save" /\ \A l \in (n + 1)..Len(mem.results) :
                               mem.results[l].id # mem.results[n].id)
                => files[mem.results[n].id] = JSONRoundTrip(mem.results[n])
  /\ (pc = "aborted" /\ ~hist.writeFailed) => hist.fetched = <<>>

\* a batch of two: the first fetch failed, the second was written normally
C9_Witness ==
  /\ pc = "save"
  /\ hist.okReads = <<FALSE, TRUE>>
  /\ IsErrorRecord(mem.results[1])
  /\ mem.results[1].id # mem.results[2].id
  /\ IsNormalRecord(files[mem.results[2].id])

----------------------------------------------------------------------------
(* The scan and the orchestrator's state machine                           *)

\* the scan of the run is over and its queue decided, no batch fetched yet
ScanJustOver == pc = "fetch" /\ hist.mode = "SCAN" /\ hist.fetched = <<>>

\* the persisted queue entries for the mint event e found on chain c
PendingEntriesFor(c, e) ==
  IF "pendingAgentIds" \notin DOMAIN indexFile THEN {}
  ELSE {k \in 1..Len(indexFile.pendingAgentIds) :
          /\ indexFile.pendingAgentIds[k].id = e.tokenId
          /\ indexFile.pendingAgentIds[k].chain = c
          /\ indexFile.pendingAgentIds[k].mintInfo.blockNumber = e.blockNumber}

\* a mint event of chain c inside the scanned range for an id without a record file
ScannedNewMint(c, e) ==
  /\ e \in ledger[c]
  /\ hist.from[c] <= e.blockNumber
  /\ e.blockNumber <= mem.block[c]
  /\ e.tokenId \notin hist.idsAtStart

\* C11: after a SCAN of [from, to] on chain X in which every window query
\* succeeded, each mint event at a block of the range for an id without a
\* record file has exactly one entry {id, chain X, mintInfo.blockNumber b}
\* in the persisted pendingAgentIds, and the persisted checkpoint of X is to.
C11_ScanQueuesEachMint ==
  ScanJustOver =>
    \A c \in Chains : hist.failed[c] = {} =>
      \A e \in ledger[c] : ScannedNewMint(c, e) =>
        /\ Cardinality(PendingEntriesFor(c, e)) = 1
        /\ indexFile[LastBlockField(c)] = mem.block[c]

\* the edges of the orchestrator's state machine, as positions of the process:
\* INIT ("init"), SCAN ("scan"), FETCH ("fetch", "write", "save"), DONE and
\* CHECKPOINT_EXIT; an uncaught failure ("aborted") or a kill ("idle") ends
\* the run outside the machine
MachineEdges ==
  ({"idle", "done", "checkpoint_exit", "aborted"} \X {"init"})
  \cup {<<"init", "fetch">>, <<"init", "scan">>, <<"scan", "fetch">>,
        <<"fetch", "write">>, <<"write", "save">>, <<"save", "fetch">>,
        <<"fetch", "done">>, <<"fetch", "checkpoint_exit">>,
        <<"init", "aborted">>, <<"fetch", "aborted">>,
        <<"scan", "aborted">>, <<"save", "aborted">>}
  \cup (Running \X {"idle"})

OrchestratorStep ==
  /\ pc' # pc => <<pc, pc'>> \in MachineEdges
  \* exactly one of RESUME or SCAN, decided on leaving INIT and kept
  /\ (pc = "init" /\ pc' = "fetch") => (hist.mode = "none" /\ hist'.mode = "RESUME")
  /\ (pc = "init" /\ pc' = "scan") => (hist.mode = "none" /\ hist'.mode = "SCAN")
  /\ pc = "scan" => hist.mode = "SCAN"
  /\ (pc \in Running /\ pc' \in Running /\ hist.mode # "none") => hist'.mode = hist.mode
  \* FINALIZE and DONE only after FETCH has processed every queue entry
  /\ (pc # "done" /\ pc' = "done") =>
       /\ pc = "fetch"
       /\ hist.fetched = mem.idsToSync
       /\ Len(hist.written) = Len(mem.idsToSync)
       /\ hist'.exit.kind = "done"
  \* CHECKPOINT_EXIT only from FETCH, on the deadline
  /\ (pc # "checkpoint_exit" /\ pc' = "checkpoint_exit") =>
       (pc = "fetch" /\ mem.over /\ hist'.exit.kind = "deadline")

\* C12: every run follows INIT, then exactly one of RESUME or SCAN, then
\* FETCH, then FINALIZE and DONE or CHECKPOINT_EXIT; DONE is reached only
\* when FETCH processed every queue entry, CHECKPOINT_EXIT only from FETCH.
C12_RunFollowsStateMachine == [][OrchestratorStep]_vars

\* a resumed run that went through FETCH and reached DONE
C12_Witness ==
  /\ pc = "done"
  /\ hist.mode = "RESUME"
  /\ hist.prev.kind = "deadline"
  /\ Len(hist.fetched) > 0

\* the step on which a run leaves INIT
LeavesInit == pc = "init" /\ pc' \in {"fetch", "scan", "aborted"}

ResumeDecisionStep ==
  /\ LeavesInit =>
       /\ (hist'.mode = "RESUME") <=> (~hist.force /\ PendingOnDisk # <<>>)
       /\ hist'.mode = "RESUME" => mem'.idsToSync = PendingOnDisk
  \* the queue of a run does not change once decided
  /\ (hist.queued /\ pc \in Running /\ pc' \in Running) => mem'.idsToSync = mem.idsToSync

ResumeAsksNothing ==
  hist.mode = "RESUME" =>
    /\ ~hist.askedHeight
    /\ ~hist.askedLogs
    /\ pc \in Running => IsPrefix(hist.fetched, mem.idsToSync)

\* C13: a run takes RESUME iff the loaded index has a non-empty
\* pendingAgentIds and force-refresh is not requested; a run that takes
\* RESUME issues no height query and no log query, and its fetch queue is
\* the persisted pendingAgentIds in the persisted order.
C13_ResumeIffPending == []ResumeAsksNothing /\ [][ResumeDecisionStep]_vars

\* a run that resumed a persisted queue of two entries and fetched them
C13_Witness ==
  /\ hist.mode = "RESUME"
  /\ pc = "save"
  /\ Len(hist.fetched) = 2

\* the ids of the queue q, in order
QueueIdSeq(q) == [k \in 1..Len(q) |-> q[k].id]

FinalWriteStep ==
  (pc # "done" /\ pc' = "done") =>
    /\ "pendingAgentIds" \notin DOMAIN indexFile'
    /\ hist.written = QueueIdSeq(mem.idsToSync)
    /\ \A k \in 1..Len(mem.idsToSync) : files[mem.idsToSync[k].id] # NoFile

\* C14: after a run that reaches DONE the persisted index has no pending
\* work, and every entry of the run's fetch queue had its record file
\* written before the final index write.
C14_DoneLeavesNoPending ==
  [](pc = "done" => PendingOnDisk = <<>>) /\ [][FinalWriteStep]_vars

\* a scanning run has written the records of a queue of two and reached DONE
C14_Witness ==
  /\ pc = "done"
  /\ hist.mode = "SCAN"
  /\ Len(hist.written) = 2
  /\ "pendingAgentIds" \notin DOMAIN indexFile

\* the queue entries not yet handed to fetchAgent
UnprocessedTail == SubSeq(mem.idsToSync, Len(hist.fetched) + 1, Len(mem.idsToSync))

FinalizeFields == {"lastSync", "agents", "totalAgents", "stats"}

DeadlineTripStep ==
  (pc # "checkpoint_exit" /\ pc' = "checkpoint_exit") =>
    /\ UnprocessedTail # <<>>
    /\ "pendingAgentIds" \in DOMAIN indexFile'
    /\ indexFile'.pendingAgentIds = UnprocessedTail
    /\ \A f \in FinalizeFields : indexFile'[f] = indexFile[f]
    /\ hist'.exit.kind = "deadline"

\* C15: when the deadline trips in FETCH the persisted pendingAgentIds is
\* exactly the not-yet-processed tail of the queue, which is non-empty, and
\* the run ends without FINALIZE (lastSync, agents, totalAgents and stats of
\* the index file stay as they were); the next run without force-refresh
\* enters RESUME.
C15_DeadlineSavesTail ==
  /\ [][DeadlineTripStep]_vars
  /\ []((hist.prev.kind = "deadline" /\ ~hist.force /\ hist.mode # "none")
          => hist.mode = "RESUME")

\* the deadline tripped after one batch of a longer queue
C15_Witness ==
  /\ pc = "checkpoint_exit"
  /\ Len(hist.fetched) = PARALLEL_FETCHES
  /\ PendingOnDisk # <<>>
  /\ hist.exit.kind = "deadline"

\* a batch is handed to fetchAgent on this step
BatchStarts == pc \in Running /\ Len(hist'.fetched) > Len(hist.fetched)

DeadlinePollStep ==
  /\ BatchStarts => ~mem.over
  /\ (pc # "checkpoint_exit" /\ pc' = "checkpoint_exit") =>
       /\ pc = "fetch"
       /\ mem.results = <<>>
       /\ hist.written = QueueIdSeq(hist.fetched)
       /\ PendingOnDisk = UnprocessedTail

\* C16: the deadline is polled only before each batch: no batch starts once
\* the deadline has passed, and a batch that has started has all its records
\* written and the shrunken queue persisted before the deadline is honoured,
\* whenever the deadline passes during the batch.
C16_DeadlinePolledBeforeBatch == [][DeadlinePollStep]_vars

\* the deadline passed while a batch was in flight and all its records are written
C16_Witness ==
  /\ pc = "save"
  /\ mem.over
  /\ mem.j = Len(mem.results)
  /\ Len(mem.results) = PARALLEL_FETCHES

\* every mint the scan discovered has an entry in the fetch queue
DiscoveredAllQueued ==
  \A c \in Chains : \A k \in 1..Len(mem.allMints[c]) :
    \E q \in 1..Len(mem.idsToSync) : mem.idsToSync[q].mintInfo = mem.allMints[c][k]

\* C20: with force-refresh set, whatever the loaded index holds (checkpoints,
\* a non-empty pendingAgentIds), the run takes SCAN, both chains are scanned
\* from their floor block, and every discovered mint is put in the fetch
\* queue even if its record file exists.
C20_ForceRefreshBypasses ==
  hist.force =>
    /\ hist.mode \in {"none", "SCAN"}
    /\ pc \in {"scan", "fetch", "write", "save"} =>
         \A c \in Chains : hist.from[c] = StartBlock(c)
    /\ (pc = "scan" /\ ~hist.askedLogs) =>
         \A c \in Chains : mem.current[c] = StartBlock(c)
    /\ (hist.queued /\ pc \in {"fetch", "write", "save"}) => DiscoveredAllQueued

\* a force-refresh run started on an index with checkpoints and a pending
\* queue, and queued a mint whose record file already existed
C20_Witness ==
  /\ hist.force
  /\ pc = "fetch"
  /\ hist.queued
  /\ hist.prev.kind = "deadline"
  /\ hist.prev.tail # <<>>
  /\ \E q \in 1..Len(mem.idsToSync) : mem.idsToSync[q].id \in hist.idsAtStart

----------------------------------------------------------------------------
(* parseAgentURI (sync.mjs 112-146, and its earlier form in part_001       *)
(* 114-145).  A URI is its recognised prefix and the rest; a text is        *)
(* decoded and parsed by table over the texts of the model.                *)

DocText == "{\"name\":\"Bot\"}"
DocBot == [name |-> Str("Bot")]

\* a JSON value that is neither an object nor falsy, such as the number 5
MetaScalar == [k |-> "scalar", d |-> EmptyDoc, err |-> UNDEF]

SyntaxErrorMessage == Str("Unexpected token")
TimeoutMessage == Str("The operation was aborted due to timeout")

\* JSON.parse(text): the value, or a SyntaxError
JSONParse(text) ==
  CASE text = "{}" -> [threw |-> FALSE, v |-> MetaDoc(EmptyDoc)]
    [] text = DocText -> [threw |-> FALSE, v |-> MetaDoc(DocBot)]
    [] text = "null" -> [threw |-> FALSE, v |-> MetaNull]
    [] text = "5" -> [threw |-> FALSE, v |-> MetaScalar]
    [] OTHER -> [threw |-> TRUE, v |-> MetaNoValue]

\* Buffer.from(payload, 'base64').toString('utf8'): never throws, characters
\* outside the alphabet are dropped
Base64Decode(payload) ==
  CASE payload = "e30=" -> "{}"
    [] payload = "eyJuYW1lIjoiQm90In0=" -> DocText
    [] payload = "bnVsbA==" -> "null"
    [] payload = "NQ==" -> "5"
    [] payload = "PGh0bWw+" -> "<html>"
    [] OTHER -> ""

\* decodeURIComponent(payload): the text, or a URIError on a malformed escape
DecodeURIComponent(payload) ==
  CASE payload = "%7B%7D" -> [threw |-> FALSE, v |-> "{}"]
    [] payload = "%7B%22name%22%3A%22Bot%22%7D" -> [threw |-> FALSE, v |-> DocText]
    [] payload = "null" -> [threw |-> FALSE, v |-> "null"]
    [] payload = "%3Chtml%3E" -> [threw |-> FALSE, v |-> "<html>"]
    [] OTHER -> [threw |-> TRUE, v |-> ""]

\* what a fetch meets: the promise rejects ("neterr", "timeout"), or it
\* resolves with a response ("resp") of the given status class and body;
\* aborted: the timeout signal fires while the body is being read
Response(k, ok, body, aborted) == [k |-> k, ok |-> ok, body |-> body, aborted |-> aborted]

\* res.json(): a promise for the parsed body
ResJson(r) ==
  IF r.aborted THEN MetaReject(TimeoutMessage)
  ELSE IF JSONParse(r.body).threw THEN MetaReject(SyntaxErrorMessage)
  ELSE JSONParse(r.body).v

Gateways == 1..3
NotAsked == 0 - 1

\* the result of a call: its outcome, the time at which the caller gets it
\* and, per gateway, the time at which it was queried
Resolved(out, at, started) == [out |-> out, at |-> at, started |-> started]
NoGateway == [g \in Gateways |-> NotAsked]

\* 113-125 (part_001 115-127): the branches before the ipfs one
resolveDirect(uri, net) ==
  CASE uri.prefix = "" /\ uri.rest = "" -> Resolved(MetaDoc(EmptyDoc), 0, NoGateway)
    [] uri.prefix = "data:application/json;base64," ->
         LET p == JSONParse(Base64Decode(uri.rest))
         IN  Resolved(IF p.threw THEN MetaDoc(EmptyDoc) ELSE p.v, 0, NoGateway)
    [] uri.prefix = "data:application/json," ->
         LET t == DecodeURIComponent(uri.rest)
             p == JSONParse(t.v)
         IN  Resolved(IF t.threw \/ p.threw THEN MetaDoc(EmptyDoc) ELSE p.v, 0, NoGateway)
    [] uri.prefix = "http" ->
         \* await fetch(...) is inside the try; return res.json() is not awaited
         IF net.http.k # "resp" THEN Resolved(MetaDoc(EmptyDoc), 1, NoGateway)
         ELSE Resolved(ResJson(net.http), 1, NoGateway)
    [] OTHER -> \* no branch taken: the function ends without a return value
         Resolved(MetaNoValue, 0, NoGateway)

\* position of gateway g in the order in which the gateways' requests settle
SettleTime(order, g) == CHOOSE t \in 1..Len(order) : order[t] = g

\* 137-140: fetch(gw).then(res => { if (!res.ok) throw ...; return res.json(); })
GatewayPromise(r) ==
  IF r.k # "resp" THEN MetaReject(Str("fetch failed"))
  ELSE IF ~r.ok THEN MetaReject(Str("status"))
  ELSE ResJson(r)

\* a JavaScript value of the model is falsy
FalsyValue(v) == v.k \in {"null", "undefined"}

\* 126-142: Promise.any over all gateways, .catch(() => ({})), result || {}
raceGateways(net, order) ==
  LET fulfilled == {g \in Gateways : GatewayPromise(net.gw[g]).k # "reject"}
      started == [g \in Gateways |-> 0]
  IN  IF fulfilled = {}
        THEN Resolved(MetaDoc(EmptyDoc), Len(order), started)
        ELSE LET first == CHOOSE g \in fulfilled :
                            \A h \in fulfilled : SettleTime(order, g) <= SettleTime(order, h)
                 result == GatewayPromise(net.gw[first])
             IN  Resolved(IF FalsyValue(result) THEN MetaDoc(EmptyDoc) ELSE result,
                          SettleTime(order, first), started)

parseAgentURI(uri, net, order) ==
  IF uri.prefix = "ipfs://" THEN raceGateways(net, order) ELSE resolveDirect(uri, net)

\* part_001 134-141: the gateways one after the other, from gateway g on
RECURSIVE tryGateways(_, _, _, _, _)
tryGateways(net, order, g, elapsed, started) ==
  IF g > Cardinality(Gateways)
    THEN \* the loop ends, the function has no return value
         Resolved(MetaNoValue, elapsed, started)
    ELSE LET r == net.gw[g]
             at == elapsed + SettleTime(order, g)
             started1 == [started EXCEPT ![g] = elapsed]
         IN  IF r.k = "resp" /\ r.ok
               THEN Resolved(ResJson(r), at, started1)     \* return res.json()
               ELSE tryGateways(net, order, g + 1, at, started1)

parseAgentURILegacy(uri, net, order) ==
  IF uri.prefix = "ipfs://" THEN tryGateways(net, order, 1, 0, NoGateway)
  ELSE resolveDirect(uri, net)

----------------------------------------------------------------------------
(* parseAgentURI on its own: every URI form of the model against every     *)
(* outcome of the requests it issues                                       *)

InlinePayloads == {"e30=", "eyJuYW1lIjoiQm90In0=", "bnVsbA==", "NQ==", "PGh0bWw+", "!!!"}
PercentPayloads ==
  {"%7B%7D", "%7B%22name%22%3A%22Bot%22%7D", "null", "%3Chtml%3E", "%E0%A4%A"}

URI(prefix, rest) == [prefix |-> prefix, rest |-> rest]

DirectURIs ==
  {URI("", "")}
  \cup {URI("data:application/json;base64,", p) : p \in InlinePayloads}
  \cup {URI("data:application/json,", p) : p \in PercentPayloads}
  \cup {URI("ar://", "txid"), URI("data:text/plain,", "hello")}

NoResponse == Response("neterr", FALSE, "", FALSE)

Responses ==
  {NoResponse, Response("timeout", FALSE, "", FALSE)}
  \cup {Response("resp", ok, body, aborted) :
          ok \in BOOLEAN, body \in {DocText, "{}", "null", "<html>"}, aborted \in BOOLEAN}

GatewayResponses ==
  {NoResponse, Response("timeout", FALSE, "", FALSE),
   Response("resp", FALSE, DocText, FALSE),
   Response("resp", TRUE, DocText, FALSE),
   Response("resp", TRUE, "{}", FALSE),
   Response("resp", TRUE, "null", FALSE),
   Response("resp", TRUE, "<html>", FALSE),
   Response("resp", TRUE, DocText, TRUE)}

SettleOrders == {o \in [Gateways -> Gateways] : \A g \in Gateways : \E t \in Gateways : o[t] = g}

Network(http, gw) == [http |-> http, gw |-> gw]
Silent == [g \in Gateways |-> NoResponse]
FixedOrder == [g \in Gateways |-> g]

ResolveArg(uri, net, order) == [uri |-> uri, net |-> net, order |-> order]

ResolveArgs ==
  {ResolveArg(u, Network(NoResponse, Silent), FixedOrder) : u \in DirectURIs}
  \cup {ResolveArg(URI("http", "s://host/agent.json"), Network(r, Silent), FixedOrder) :
          r \in Responses}
  \cup {ResolveArg(URI("ipfs://", "cid"), Network(NoResponse, gw), o) :
          gw \in [Gateways -> GatewayResponses], o \in SettleOrders}

InitResolve ==
  /\ OrchIdle
  /\ arg \in ResolveArgs
  /\ res = <<>>

ApplyParseAgentURI ==
  /\ res = <<>>
  /\ res' = <<[rev |-> "sync.mjs", r |-> parseAgentURI(arg.uri, arg.net, arg.order)]>>
  /\ UNCHANGED <<orchVars, arg>>

ApplyParseAgentURILegacy ==
  /\ res = <<>>
  /\ res' = <<[rev |-> "part_001", r |-> parseAgentURILegacy(arg.uri, arg.net, arg.order)]>>
  /\ UNCHANGED <<orchVars, arg>>

NextResolve == ApplyParseAgentURI \/ ApplyParseAgentURILegacy

SpecResolve == InitResolve /\ [][NextResolve]_vars

\* C17: for every URI and every internal failure parseAgentURI resolves to a
\* document or to the empty document; it never rejects and never returns a
\* value that is not a document.
C17_ResolverNeverFails ==
  res # <<>> => res[1].r.out.k = "doc"

\* C18: for an HTTP(S) URI, a response with a non-success status, or a
\* timeout, makes parseAgentURI return the empty document.
C18_HttpFailureGivesEmpty ==
  (/\ res # <<>>
   /\ arg.uri.prefix = "http"
   /\ \/ arg.net.http.k = "timeout"
      \/ (arg.net.http.k = "resp" /\ arg.net.http.aborted)
      \/ (arg.net.http.k = "resp" /\ ~arg.net.http.ok))
  => res[1].r.out = MetaDoc(EmptyDoc)

\* gateway g answers with a success status and a body that is a JSON document
GatewaySucceeds(g) ==
  /\ arg.net.gw[g].k = "resp"
  /\ arg.net.gw[g].ok
  /\ ~arg.net.gw[g].aborted
  /\ ~JSONParse(arg.net.gw[g].body).threw
  /\ JSONParse(arg.net.gw[g].body).v.k = "doc"

\* gateway g fails before any body is read
GatewayFailsOutright(g) == arg.net.gw[g].k # "resp" \/ ~arg.net.gw[g].ok

FirstSuccess ==
  CHOOSE g \in Gateways :
    /\ GatewaySucceeds(g)
    /\ \A h \in Gateways :
         GatewaySucceeds(h) => SettleTime(arg.order, g) <= SettleTime(arg.order, h)

\* the call under study raced the gateways of an ipfs:// URI, each of which
\* either succeeds or fails outright
GatewaysRaced ==
  (/\ res # <<>>
   /\ arg.uri.prefix = "ipfs://"
   /\ \A g \in Gateways : GatewaySucceeds(g) \/ GatewayFailsOutright(g))
  => /\ \A g \in Gateways : res[1].r.started[g] = 0
     /\ IF \E g \in Gateways : GatewaySucceeds(g)
          THEN /\ res[1].r.out = JSONParse(arg.net.gw[FirstSuccess].body).v
               /\ res[1].r.at = SettleTime(arg.order, FirstSuccess)
          ELSE res[1].r.out = MetaDoc(EmptyDoc)

\* the race as sync.mjs runs it
GatewaysRacedInSync == (res # <<>> /\ res[1].rev = "sync.mjs") => GatewaysRaced

\* C19: for an ipfs:// URI all configured gateways are queried concurrently;
\* the resolver returns the document of the first gateway to succeed, without
\* waiting for gateways still pending or failing, and the empty document if
\* every gateway fails (parseAgentURI of sync.mjs and of part_001).
C19_GatewaysRacedFirstWins == GatewaysRaced /\ (res = <<>> \/ res[1].rev \in {"sync.mjs", "part_001"})


----------------------------------------------------------------------------
(* Record files and the entities they describe                             *)

\* the mint a stored record was assembled from names its entity: the
\* transaction hash of a mint is particular to one chain and one id
EntityOf(rec) == rec.txHash

DescribesEntity(rec) == rec # NoFile /\ "txHash" \in DOMAIN rec

OverwriteKeepsEntity ==
  \A id \in Ids :
    (DescribesEntity(files[id]) /\ DescribesEntity(files'[id]))
      => EntityOf(files'[id]) = EntityOf(files[id])

\* C21: across any sequence of runs, a record file that holds the record of
\* one entity (chain, id) is never overwritten with the record of a different
\* entity, also when the same numeric id is minted on both chains
C21_NoSharedRecordFile == [][OverwriteKeepsEntity]_vars


----------------------------------------------------------------------------
(* Error records across runs                                               *)

\* ids of the mints the scan of the running process has discovered
ScannedIds ==
  UNION {{mem.allMints[c][k].tokenId : k \in 1..Len(mem.allMints[c])} : c \in Chains}

RefetchedErrorIds ==
  {hist.fetched[k].id : k \in 1..Len(hist.fetched)} \cap hist.errAtStart

\* C22: an id whose record file holds an error record when a run starts is not
\* fetched by that run, unless the run has force-refresh set or its scan has
\* discovered a mint of the id; a run resumed after a kill included
C22_ErrorRecordTerminal ==
  (pc \in Running /\ RefetchedErrorIds # {})
    => (hist.force \/ RefetchedErrorIds \subseteq ScannedIds)


----------------------------------------------------------------------------
(* The record of a failed fetch, as written and as tallied                 *)

FetchFailed == ~(ArgReadsOk /\ arg.meta.k = "doc")

\* C23: every record written for a failed fetch has a present, non-null error
\* field and no field other than id, chain and syncedAt, and the batch tally
\* counts it as an error; every record written for a successful fetch has no
\* error field; whatever the failure, a missing or empty message included
C23_ErrorRecordShape ==
  \A n \in 1..Len(res) :
    LET agent == res[n].rec
        written == JSONRoundTrip(agent)
    IN  IF FetchFailed
          THEN /\ "error" \in DOMAIN written
               /\ written.error \notin {NULL, UNDEF}
               /\ DOMAIN written \subseteq ErrorKeys
               /\ TallyFetched(ZeroStats, agent)
                    = Bump(ZeroStats, ChainStatsOf(agent), "errors")
          ELSE "error" \notin DOMAIN written


----------------------------------------------------------------------------
(* Failed writes of the index file                                         *)

\* C24: whenever a write of the index file fails (in-scan checkpoint, SCAN
\* checkpoint, per-batch queue save, deadline save or final index) the run
\* stops with a failure; it does not go on as if the checkpoint were persisted
C24_FailedIndexWriteAborts == hist.writeFailed => pc = "aborted"

\* the same for a process of src/scripts/sync.mjs, where it holds
IndexWriteFailedInSync == pc = "aborted" /\ hist.writeFailed /\ hist.mode = "SCAN"


----------------------------------------------------------------------------
(* The agents list of the final index                                      *)

\* C25: after a run that reaches DONE, the ids listed in the persisted index
\* (agents, with totalAgents equal to its length) are exactly the ids that
\* have a record file on disk, error records written in that run included
C25_AgentsListMatchesFiles ==
  pc = "done" =>
    /\ {indexFile.agents[k] : k \in 1..Len(indexFile.agents)} = FileIds
    /\ indexFile.totalAgents = Len(indexFile.agents)


----------------------------------------------------------------------------
(* Termination of a run and the number of its batches                      *)

CeilDiv(n, d) == (n + d - 1) \div d

\* length of the fetch queue of the current (or just ended) run
QueueLength == IF pc \in Running THEN Len(mem.idsToSync) ELSE hist.exit.n

RunEnded == pc \in {"done", "checkpoint_exit", "aborted"}

\* C26: in every run whose network calls all return or fail, the run reaches
\* DONE, CHECKPOINT_EXIT or an abort, and (the fetch concurrency being at
\* least 1) the fetch loop performs at most ceil(n / concurrency) batches for
\* a queue of n entries
C26_RunEndsInBoundedBatches ==
  /\ (pc \in Running) ~> RunEnded
  /\ [](hist.queued => hist.batches <= CeilDiv(QueueLength, PARALLEL_FETCHES))

\* a run over a queue of three entries has ended after its two batches
C26_Witness ==
  /\ pc = "done"
  /\ hist.exit.n = 3
  /\ hist.batches = 2


----------------------------------------------------------------------------
(* A ledger call under withRetry and the endpoint each attempt goes to     *)
(* (sync.mjs 29-42, 77-110, 160-168, 197-210)                              *)

ETH_RPCS_LENGTH == 4
BASE_RPCS_LENGTH == 5

\* createEthClient / createBaseClient: the endpoint a client is bound to when
\* it is created at endpoint index rpcIndex (position in the chain's list)
EndpointOf(c, rpcIndex) ==
  rpcIndex % (IF c = "ethereum" THEN ETH_RPCS_LENGTH ELSE BASE_RPCS_LENGTH)

\* withRetry(() => client.getLogs(..)) / withRetry(() => client.readContract(..))
\* where client is the parameter of getMintEvents / fetchAgent, a client of
\* chain c created at index clientIndex.  The catch of withRetry advances the
\* module's two indexes and replaces the module's ethClient and baseClient;
\* the arrow function keeps calling the client it closed over.
\*   used     : endpoint each invocation was issued against
\*   rpcIndex : the module's endpoint index of chain c after the call
ledgerCall(c, clientIndex, attempts) ==
  LET r == withRetry(attempts)
  IN  [r |-> r,
       used |-> [k \in 1..r.calls |-> EndpointOf(c, clientIndex)],
       rpcIndex |-> clientIndex + r.rotations]

\* one attempt more than withRetry may use, to see that it is never invoked
InitRetry ==
  /\ OrchIdle
  /\ arg \in [c : Chains, clientIndex : {0, ETH_RPCS_LENGTH - 1},
               attempts : [1..(RETRIES + 1) ->
                             {Ok("0xa"), Fail(Str("timeout")), Fail(Str("rate limited"))}]]
  /\ res = <<>>

ApplyLedgerCall ==
  /\ res = <<>>
  /\ res' = <<ledgerCall(arg.c, arg.clientIndex, arg.attempts)>>
  /\ UNCHANGED <<orchVars, arg>>

SpecRetry == InitRetry /\ [][ApplyLedgerCall]_vars

AllFail(attempts, n) == \A k \in 1..n : ~attempts[k].ok

\* C27: withRetry invokes the wrapped call at most 3 times; it returns the
\* result of the first attempt that succeeds and makes no further attempt;
\* after the third consecutive failure it propagates that failure, and it
\* never returns normally when all 3 attempts failed
C27_AtMostThreeAttempts ==
  \A n \in 1..Len(res) :
    LET r == res[n].r IN
    /\ r.calls \in 1..RETRIES
    /\ AllFail(arg.attempts, r.calls - 1)
    /\ r.ok => (arg.attempts[r.calls].ok /\ r.v = arg.attempts[r.calls].v)
    /\ ~r.ok => (r.calls = RETRIES /\ r.err = arg.attempts[RETRIES].err)
    /\ AllFail(arg.attempts, RETRIES) => ~r.ok

\* three failures were propagated although a fourth attempt would succeed
C27_Witness ==
  /\ Len(res) = 1
  /\ ~res[1].r.ok
  /\ res[1].r.err = Str("rate limited")
  /\ arg.attempts[RETRIES + 1].ok

\* C28: after a ledger call fails, its retry is issued against the next
\* endpoint of that chain's ordered list, not against the one that just failed
C28_RetryGoesToNextEndpoint ==
  \A n \in 1..Len(res) :
    \A k \in 2..res[n].r.calls :
      /\ res[n].used[k] = EndpointOf(arg.c, res[n].used[k - 1] + 1)
      /\ res[n].used[k] # res[n].used[k - 1]


----------------------------------------------------------------------------
(* The height queries of the scan                                          *)

\* C29: a height query is retried like the other ledger calls (up to 3
\* attempts, rotating endpoints): a run in which fewer than 3 invocations of
\* getBlockNumber have failed is not aborted by the height query
C29_HeightQueryRetried ==
  (hist.heightFailures > 0 /\ hist.heightFailures < RETRIES) => pc # "aborted"


----------------------------------------------------------------------------
(* The windows of getMintEvents on their own: every range and chunk size   *)

MaxBlock == 6
MaxChunk == 4

InitWindows ==
  /\ OrchIdle
  /\ arg \in [from : 0..MaxBlock, to : 0..MaxBlock, chunk : 1..MaxChunk]
  /\ res = <<>>

\* the while loop of 156-189, one window per iteration, failed queries included
ApplyGetMintEvents ==
  /\ res = <<>>
  /\ res' = <<WindowsFrom(arg.from, arg.to, arg.chunk)>>
  /\ UNCHANGED <<orchVars, arg>>

SpecWindows == InitWindows /\ [][ApplyGetMintEvents]_vars

WindowsHolding(w, b) == {k \in 1..Len(w) : w[k].lo <= b /\ b <= w[k].hi}

\* C30: for every range [from, to] with from <= to and every chunk size
\* c >= 1 the windows queried come in strictly increasing block order, are
\* pairwise disjoint and contiguous, span at most c blocks each and cover
\* exactly the blocks from..to; when from > to no window is queried
C30_WindowsPartitionRange ==
  \A n \in 1..Len(res) :
    LET w == res[n] IN
    /\ arg.from > arg.to => w = <<>>
    /\ arg.from <= arg.to => (w # <<>> /\ w[1].lo = arg.from /\ w[Len(w)].hi = arg.to)
    /\ \A k \in 1..Len(w) : w[k].lo <= w[k].hi /\ w[k].hi - w[k].lo + 1 <= arg.chunk
    /\ \A k \in 1..(Len(w) - 1) : w[k + 1].lo = w[k].hi + 1
    /\ \A b \in 0..(MaxBlock + 1) :
         Cardinality(WindowsHolding(w, b))
           = IF arg.from <= b /\ b <= arg.to THEN 1 ELSE 0

\* a range split into two full windows and a shorter last one
C30_Witness ==
  /\ Len(res) = 1
  /\ Len(res[1]) = 3
  /\ arg.chunk = 2
  /\ res[1][3].lo = res[1][3].hi


----------------------------------------------------------------------------
(* Work lost by a kill during the fetch phase                              *)

\* positions of the run's queue whose record the run has written while the
\* entry at that position is still in the pending queue on disk
WrittenStillPending ==
  LET shift == Len(mem.idsToSync) - Len(PendingOnDisk)
  IN  {k \in 1..Len(hist.written) :
         /\ k > shift
         /\ k <= Len(mem.idsToSync)
         /\ PendingOnDisk[k - shift] = mem.idsToSync[k]}

\* C31: wherever a kill hits the fetch phase, the entries of the persisted
\* pending queue whose record the run has already written number at most one
\* batch, so the resumed run re-fetches at most one batch of fetched entries
C31_KillLosesAtMostOneBatch ==
  pc \in Running => Cardinality(WrittenStillPending) <= PARALLEL_FETCHES

\* a full batch is written and the queue on disk still holds it
C31_Witness ==
  /\ pc = "save"
  /\ Cardinality(WrittenStillPending) = PARALLEL_FETCHES
  /\ Len(mem.idsToSync) > PARALLEL_FETCHES


----------------------------------------------------------------------------
(* A SCAN run started on any data directory: the record files and the      *)
(* index need not agree (index lost, restored or edited between runs)      *)

InitDisk ==
  /\ ledger \in LedgerChoices
  /\ \E h \in {InitialHeight, MaxHeight} : height = [c \in Chains |-> h]
  /\ \E present \in SUBSET Ids :
       files = [id \in Ids |-> IF id \in present
                                 THEN JSONRoundTrip(ErrorRecord(id, Str("rate limited"), 0))
                                 ELSE NoFile]
  /\ \E e \in {0, ETH_START_BLOCK}, b \in {0, BASE_START_BLOCK},
        listed \in SUBSET Ids, tallied \in BOOLEAN :
       indexFile = [DefaultIndex EXCEPT
                      !.ethLastBlock = e, !.baseLastBlock = b,
                      !.agents = SortDesc(listed),
                      !.totalAgents = Cardinality(listed),
                      !.stats = IF tallied
                                  THEN [ethereum |-> ZeroCounters, base |-> ZeroCounters,
                                        totalErrors |-> 0]
                                  ELSE @]
  /\ run = 0
  /\ pc = "idle"
  /\ mem = IdleMem
  /\ hist = FreshHist(NoExit, NoExit, {}, FALSE)
  /\ arg = <<>>
  /\ res = <<>>

\* INIT and SCAN up to the queue
NextDisk ==
  \/ \E force \in BOOLEAN : StartRun(force)
  \/ ScanStart
  \/ \E c \in Chains : ScanStep(c)
  \/ QueueAndCheckpoint

SpecDisk == InitDisk /\ [][NextDisk]_vars

ListedIds == {mem.index.agents[k] : k \in 1..Len(mem.index.agents)}

\* the queue and the first blocks of the scans as functions of the record
\* files, the checkpoints, the force flag and the scanned mints alone
QueueFromFilesOnly ==
  /\ (pc = "scan" /\ pc' = "fetch") =>
       mem'.idsToSync = buildQueue(mem.allMints.ethereum \o mem.allMints.base,
                                   mem.allMints.ethereum, hist.force, FileIds)
  /\ (pc = "init" /\ pc' = "scan") =>
       \A c \in Chains :
         mem'.current[c] = IF hist.force \/ indexFile[LastBlockField(c)] = 0
                             THEN StartBlock(c)
                             ELSE indexFile[LastBlockField(c)] + 1

\* C32: the existing ids of the skip decision come from the record files on
\* disk only: the fetch queue of a SCAN run is determined by the record
\* files, the checkpoints, the force flag and the ledger, whatever the
\* agents list, totalAgents and stats of the index hold
C32_QueueIgnoresIndexLists == [][QueueFromFilesOnly]_vars

\* a scanned id listed in the index without a record file was queued, and one
\* with a record file that the index does not list was skipped
C32_Witness ==
  /\ pc = "fetch"
  /\ hist.mode = "SCAN"
  /\ ~hist.force
  /\ 1 \in ListedIds \ FileIds
  /\ MaxId \in FileIds \ ListedIds
  /\ \E k \in 1..Len(mem.idsToSync) : mem.idsToSync[k].id = 1
  /\ \E k \in 1..Len(mem.allMints.ethereum) : mem.allMints.ethereum[k].tokenId = MaxId
  /\ \A k \in 1..Len(mem.idsToSync) : mem.idsToSync[k].id # MaxId


----------------------------------------------------------------------------
(* The chain of a fetched record and the client of a batch                 *)

\* the queue entry of the n-th fetch of the batch in flight
BatchEntry(n) == hist.fetched[BatchStart + n]

\* 332: the one client handed to every fetchAgent call of the batch
BatchClientChain == BatchEntry(1).chain

\* C33: the chain written in a non-error record equals the chain of its queue
\* entry, whichever way the fetches of the batch interleave: a retry, with
\* the client rotation it triggers, in the same fetch or in a sibling fetch
\* before the record is assembled does not change the recorded chain
C33_RecordedChainIsEntryChain ==
  pc \in {"write", "save"} =>
    \A n \in 1..Len(mem.results) :
      IsNormalRecord(mem.results[n]) => mem.results[n].chain = BatchEntry(n).chain

\* C34: the owner and metadata-URI reads of a queue entry with chain C are
\* issued to the client of chain C, also in a batch that holds entries of
\* both chains
C34_FetchedThroughOwnChain ==
  pc \in {"write", "save"} =>
    \A n \in 1..Len(mem.results) : BatchClientChain = BatchEntry(n).chain


\* the mint of queue entry q happened on the chain the entry names
LabelledByOrigin(q) == \E e \in ledger[q.chain] : e.txHash = q.mintInfo.txHash

\* C35: every queue entry built by SCAN carries the chain whose scan has
\* discovered its mint; an id minted on both chains is queued once per chain,
\* the Ethereum entry labelled 'ethereum' and the Base entry labelled 'base'
C35_EntryCarriesScanChain ==
  (hist.mode = "SCAN" /\ pc \in Running \cup RunningLegacy) =>
    \A k \in 1..Len(mem.idsToSync) : LabelledByOrigin(mem.idsToSync[k])

\* the revision of src/unnamed/part_001 has queued one id for both chains
BothChainsQueuedLegacy ==
  /\ pc = "l_fetch"
  /\ \E j, k \in 1..Len(mem.idsToSync) :
       /\ mem.idsToSync[j].id = mem.idsToSync[k].id
       /\ mem.idsToSync[j].chain = "ethereum"
       /\ mem.idsToSync[k].chain = "base"


----------------------------------------------------------------------------
(* The pending queue on disk across interrupted and resumed runs           *)

IsSuffix(p, q) == Len(p) <= Len(q) /\ SubSeq(q, Len(q) - Len(p) + 1, Len(q)) = p

\* every write of the index but the SCAN checkpoint leaves a suffix of the
\* queue that was on disk; during the fetch phase that queue is a suffix of
\* the queue of the run
PendingOnlyShrinks ==
  /\ pc # "scan" => IsSuffix(PendingOnDisk', PendingOnDisk)
  /\ (pc \in {"fetch", "write", "save"} /\ (hist.mode = "RESUME" \/ hist.wroteIndex))
       => IsSuffix(PendingOnDisk, mem.idsToSync)

\* C36: from a SCAN checkpoint on, through interrupted (killed or
\* deadline-exited) and resumed runs without force-refresh, the persisted
\* pending queue is always a suffix of the queue persisted by that SCAN: it
\* gains no entry, is not reordered and does not grow until a run is DONE
C36_PendingIsShrinkingSuffix == [][PendingOnlyShrinks]_vars

\* a run resumed after a kill has saved a shorter, non-empty queue
C36_Witness ==
  /\ hist.mode = "RESUME"
  /\ hist.prev.kind \in {"kill", "kill_boundary"}
  /\ pc = "fetch"
  /\ PendingOnDisk # <<>>
  /\ Len(PendingOnDisk) < Len(mem.idsToSync)


----------------------------------------------------------------------------
(* Endpoints that lag: the height an endpoint reports may be behind the    *)
(* height another endpoint of the same chain has reported before           *)

\* 267-281 with the endpoint of chain c one block behind the chain
ScanStartBehind(c) ==
  /\ pc = "init"
  /\ ~hasPending
  /\ height[c] > 0
  /\ LET reported == [height EXCEPT ![c] = @ - 1] IN
     /\ mem' = [mem EXCEPT !.block = reported,
                           !.current = [d \in Chains |-> FromBlock(d)]]
     /\ hist' = [hist EXCEPT
                   !.mode = "SCAN",
                   !.askedHeight = TRUE,
                   !.from = [d \in Chains |-> FromBlock(d)],
                   !.newMints = \E d \in Chains : \E e \in ledger[d] :
                                  /\ e.blockNumber > mem.index[LastBlockField(d)]
                                  /\ e.blockNumber <= reported[d]]
  /\ pc' = "scan"
  /\ UNCHANGED <<ledger, height, files, indexFile, run, arg, res>>

NextLag ==
  \/ NextLive
  \/ \E c \in Chains : ScanStartBehind(c)

SpecLag == Init /\ [][NextLag]_vars

CheckpointStep ==
  /\ ~hist.force =>
       \A c \in Chains : indexFile'[LastBlockField(c)] >= indexFile[LastBlockField(c)]
  /\ (hist.mode = "RESUME" /\ pc \in Running) =>
       \A c \in Chains : indexFile'[LastBlockField(c)] = indexFile[LastBlockField(c)]

\* C37: over runs without force-refresh the persisted checkpoint of a chain
\* never decreases, whatever heights the endpoints report (a height below
\* the stored checkpoint included); a RESUME run that reaches DONE leaves
\* both checkpoints as they were
C37_CheckpointNeverDecreases == [][CheckpointStep]_vars


----------------------------------------------------------------------------
(* The final index of a sync that was interrupted between two batches and  *)
(* resumed, against the one the same sync writes when it is not            *)
(* interrupted                                                             *)

AddStats(a, b) == [c \in Chains |-> [k \in Counters |-> a[c][k] + b[c][k]]]

\* the run completes the queue of a SCAN run that was stopped after a batch
ResumesScanRun ==
  /\ hist.mode = "RESUME"
  /\ hist.prev.kind \in {"deadline", "kill_boundary"}
  /\ hist.prev.scan

\* what the SCAN run would have had in memory at this point of the loop had
\* it not been stopped: its tally and existing ids at the interruption,
\* continued with the results the resumed run has met
UninterruptedStats == AddStats(hist.prev.stats, mem.stats)
UninterruptedExisting == hist.prev.existingIds \cup hist.okIds

\* 369-399 on that memory
UninterruptedIndex ==
  LET stats == TallyExistingAll(UninterruptedStats,
                                UninterruptedExisting \ hist.prev.queueIds)
      allIds == SortDesc(UninterruptedExisting)
  IN  [totalAgents |-> Len(allIds),
       agents |-> allIds,
       stats |-> [ethereum |-> stats.ethereum, base |-> stats.base,
                  totalErrors |-> stats.ethereum.errors + stats.base.errors]]

SameFinalIndex ==
  (ResumesScanRun /\ pc = "fetch" /\ pc' = "done") =>
     /\ indexFile'.agents = UninterruptedIndex.agents
     /\ indexFile'.totalAgents = UninterruptedIndex.totalAgents
     /\ indexFile'.stats = UninterruptedIndex.stats

\* C38: for the same queue and the same fetch outcomes, the agents list,
\* totalAgents and every per-chain counter of stats (errors included) written
\* at DONE are the same whether FETCH ran in one run or was interrupted after
\* a batch and completed by a RESUME run
C38_ResumedIndexEqualsUninterrupted == [][SameFinalIndex]_vars


----------------------------------------------------------------------------
(* The windows of syncChain (scripts/sync-d1.mjs) on their own             *)

\* sync-d1.mjs 108-162: while (fromBlock < currentBlock), toBlock is
\* fromBlock + blockChunk capped at currentBlock, both ends of a window are
\* queried, and the next window starts at toBlock + 1; a failed query is
\* logged and the loop goes on
RECURSIVE syncChainWindows(_, _, _)
syncChainWindows(fromBlock, currentBlock, blockChunk) ==
  IF ~(fromBlock < currentBlock) THEN <<>>
  ELSE LET toBlock == IF fromBlock + blockChunk > currentBlock
                        THEN currentBlock ELSE fromBlock + blockChunk
       IN  <<[lo |-> fromBlock, hi |-> toBlock]>>
             \o syncChainWindows(toBlock + 1, currentBlock, blockChunk)

\* syncChain(chain, client, startBlock = arg.from, blockChunk = arg.chunk)
\* on a chain whose getBlockNumber() answers arg.to
ApplySyncChain ==
  /\ res = <<>>
  /\ res' = <<syncChainWindows(arg.from, arg.to, arg.chunk)>>
  /\ UNCHANGED <<orchVars, arg>>

SpecD1 == InitWindows /\ [][ApplySyncChain]_vars

\* C40: for every start block s, chunk size c >= 1 and current height
\* h >= s, every block of [s, h], the last block h included, lies in exactly
\* one window queried by syncChain
C40_EveryBlockOnce ==
  \A n \in 1..Len(res) :
    arg.from <= arg.to =>
      \A b \in arg.from..arg.to : Cardinality(WindowsHolding(res[n], b)) = 1


----------------------------------------------------------------------------
(* The read API (functions/api): GET /api/agents, /api/agent/:id and       *)
(* /api/stats in front of caches.default and the D1 database.              *)
(* Here arg is the database and res the worker's surroundings:             *)
(*   res.cache   caches.default, url -> the stored response, if any        *)
(*   res.req     the requests being handled, each at an await              *)
(*   res.puts    cache.put calls handed to waitUntil and not yet done      *)
(*   res.last    the response returned last, whether it came from the      *)
(*               cache and how many database statements its request ran    *)
(*   res.failed  the urls that have been answered with a 404 or a 500      *)

MaxInFlight == 2

Requests ==
  {[route |-> "agents", url |-> "/api/agents", id |-> 0],
   [route |-> "agent", url |-> "/api/agent/1", id |-> 1],
   [route |-> "stats", url |-> "/api/stats", id |-> 0]}

Urls == {r.url : r \in Requests}

NoRequest == [route |-> "none", url |-> "", id |-> 0, stage |-> "idle"]

\* the agents table has no row of token 1 yet
InitApi ==
  /\ OrchIdle
  /\ arg = [agents |-> {}]
  /\ res = [cache |-> [u \in Urls |-> {}],
            req |-> [n \in 1..MaxInFlight |-> NoRequest],
            puts |-> {},
            last |-> [url |-> "", status |-> 0, body |-> "", hit |-> FALSE, queries |-> 0],
            failed |-> {}]

\* a GET request reaches the worker and its handler starts
Arrive(n, r) ==
  /\ res.req[n] = NoRequest
  /\ res' = [res EXCEPT !.req[n] = [route |-> r.route, url |-> r.url, id |-> r.id,
                                    stage |-> "match"]]
  /\ UNCHANGED <<orchVars, arg>>

\* agents.js 14-102. Up to the first await (cache.match), then the rest:
\* the listing and the count are read, the rows' metadata_json is parsed,
\* the response is built with the default status and handed to cache.put
onRequestAgents(n) ==
  LET request == res.req[n]
      cached == res.cache[request.url]
  IN
  /\ request.route = "agents"
  /\ \/ /\ request.stage = "match"
        /\ IF cached # {}
             THEN \E response \in cached :
                    res' = [res EXCEPT !.req[n] = NoRequest,
                                       !.last = [url |-> request.url, status |-> response.status,
                                                 body |-> response.body, hit |-> TRUE,
                                                 queries |-> 0]]
             ELSE res' = [res EXCEPT !.req[n].stage = "miss"]
     \/ /\ request.stage = "miss"
        /\ \E outcome \in {"ok", "all_throws", "first_throws", "parse_throws"} :
             LET queries == IF outcome = "all_throws" THEN 1 ELSE 2
                 response == IF outcome = "ok"
                               THEN [status |-> 200, body |-> "agents"]
                               ELSE [status |-> 500, body |-> outcome]
             IN  res' = [res EXCEPT
                    !.req[n] = NoRequest,
                    !.last = [url |-> request.url, status |-> response.status,
                              body |-> response.body, hit |-> FALSE, queries |-> queries],
                    !.puts = IF outcome = "ok"
                               THEN @ \cup {[url |-> request.url, response |-> response]}
                               ELSE @,
                    !.failed = IF outcome = "ok" THEN @ ELSE @ \cup {request.url}]
  /\ UNCHANGED <<orchVars, arg>>

\* the handler with the not-found response handed to cache.put as well
onRequestAgent_cache404(n) ==
  LET request == res.req[n]
      cached == res.cache[request.url]
  IN
  /\ request.route = "agent"
  /\ \/ /\ request.stage = "match"
        /\ IF cached # {}
             THEN \E response \in cached :
                    res' = [res EXCEPT !.req[n] = NoRequest,
                                       !.last = [url |-> request.url, status |-> response.status,
                                                 body |-> response.body, hit |-> TRUE,
                                                 queries |-> 0]]
             ELSE res' = [res EXCEPT !.req[n].stage = "miss"]
     \/ /\ request.stage = "miss"
        /\ \E outcome \in {"ok", "first_throws", "parse_throws"} :
             LET agent == request.id \in arg.agents
                 response == IF outcome = "first_throws"
                               THEN [status |-> 500, body |-> outcome]
                             ELSE IF ~agent
                               THEN [status |-> 404, body |-> "Agent not found"]
                             ELSE IF outcome = "parse_throws"
                               THEN [status |-> 500, body |-> outcome]
                             ELSE [status |-> 200, body |-> ToString(request.id)]
             IN  res' = [res EXCEPT
                    !.req[n] = NoRequest,
                    !.last = [url |-> request.url, status |-> response.status,
                              body |-> response.body, hit |-> FALSE, queries |-> 1],
                    !.puts = IF response.status \in {200, 404}
                               THEN @ \cup {[url |-> request.url, response |-> response]}
                               ELSE @,
                    !.failed = IF response.status = 200 THEN @ ELSE @ \cup {request.url}]
  /\ UNCHANGED <<orchVars, arg>>

\* agent/[id].js 8-56. The row is read by token_id; without a row the 404
\* is returned at once, otherwise metadata_json is parsed and the response,
\* built with the default status, is handed to cache.put
onRequestAgent(n) ==
  LET request == res.req[n]
      cached == res.cache[request.url]
  IN
  /\ request.route = "agent"
  /\ \/ /\ request.stage = "match"
        /\ IF cached # {}
             THEN \E response \in cached :
                    res' = [res EXCEPT !.req[n] = NoRequest,
                                       !.last = [url |-> request.url, status |-> response.status,
                                                 body |-> response.body, hit |-> TRUE,
                                                 queries |-> 0]]
             ELSE res' = [res EXCEPT !.req[n].stage = "miss"]
     \/ /\ request.stage = "miss"
        /\ \E outcome \in {"ok", "first_throws", "parse_throws"} :
             LET agent == request.id \in arg.agents
                 response == IF outcome = "first_throws"
                               THEN [status |-> 500, body |-> outcome]
                             ELSE IF ~agent
                               THEN [status |-> 404, body |-> "Agent not found"]
                             ELSE IF outcome = "parse_throws"
                               THEN [status |-> 500, body |-> outcome]
                             ELSE [status |-> 200, body |-> ToString(request.id)]
             IN  res' = [res EXCEPT
                    !.req[n] = NoRequest,
                    !.last = [url |-> request.url, status |-> response.status,
                              body |-> response.body, hit |-> FALSE, queries |-> 1],
                    !.puts = IF response.status = 200
                               THEN @ \cup {[url |-> request.url, response |-> response]}
                               ELSE @,
                    !.failed = IF response.status = 200 THEN @ ELSE @ \cup {request.url}]
  /\ UNCHANGED <<orchVars, arg>>

\* agent/[id].js 65-128 (GET /api/stats). Three statements are run one
\* after the other; the first that throws ends the try block
onRequestStats(n) ==
  LET request == res.req[n]
      cached == res.cache[request.url]
  IN
  /\ request.route = "stats"
  /\ \/ /\ request.stage = "match"
        /\ IF cached # {}
             THEN \E response \in cached :
                    res' = [res EXCEPT !.req[n] = NoRequest,
                                       !.last = [url |-> request.url, status |-> response.status,
                                                 body |-> response.body, hit |-> TRUE,
                                                 queries |-> 0]]
             ELSE res' = [res EXCEPT !.req[n].stage = "miss"]
     \/ /\ request.stage = "miss"
        /\ \E thrownAt \in 0..3 :
             LET queries == IF thrownAt = 0 THEN 3 ELSE thrownAt
                 response == IF thrownAt = 0
                               THEN [status |-> 200, body |-> "stats"]
                               ELSE [status |-> 500, body |-> "throws"]
             IN  res' = [res EXCEPT
                    !.req[n] = NoRequest,
                    !.last = [url |-> request.url, status |-> response.status,
                              body |-> response.body, hit |-> FALSE, queries |-> queries],
                    !.puts = IF thrownAt = 0
                               THEN @ \cup {[url |-> request.url, response |-> response]}
                               ELSE @,
                    !.failed = IF thrownAt = 0 THEN @ ELSE @ \cup {request.url}]
  /\ UNCHANGED <<orchVars, arg>>

\* context.waitUntil(cache.put(cacheKey, response.clone())) completes
CachePut(p) ==
  /\ p \in res.puts
  /\ res' = [res EXCEPT !.cache[p.url] = {p.response}, !.puts = @ \ {p}]
  /\ UNCHANGED <<orchVars, arg>>

\* max-age runs out (CACHE_TTL) or the cache evicts the entry
CacheExpire(u) ==
  /\ res.cache[u] # {}
  /\ res' = [res EXCEPT !.cache[u] = {}]
  /\ UNCHANGED <<orchVars, arg>>

\* the D1 sync inserts the row of token 1
DbInsert ==
  /\ 1 \notin arg.agents
  /\ arg' = [arg EXCEPT !.agents = @ \cup {1}]
  /\ UNCHANGED <<orchVars, res>>

NextApi ==
  \/ \E n \in 1..MaxInFlight, r \in Requests : Arrive(n, r)
  \/ \E n \in 1..MaxInFlight : onRequestAgents(n)
  \/ \E n \in 1..MaxInFlight : onRequestAgent(n)
  \/ \E n \in 1..MaxInFlight : onRequestStats(n)
  \/ \E p \in res.puts : CachePut(p)
  \/ \E u \in Urls : CacheExpire(u)
  \/ DbInsert

SpecApi == InitApi /\ [][NextApi]_vars

\* C39: in every state of the read API, whatever requests came before, the
\* cache holds only responses of status 200, only responses of status 200
\* wait to be put into it, a response returned on a cache hit has status
\* 200 and was returned without any database statement being run, and a
\* 404 or 500 response was never taken from the cache
C39_CacheDiscipline ==
  /\ \A u \in Urls : \A response \in res.cache[u] : response.status = 200
  /\ \A p \in res.puts : p.response.status = 200
  /\ res.last.hit => (res.last.queries = 0 /\ res.last.status = 200)
  /\ res.last.status \in {404, 500} => (~res.last.hit /\ res.last.queries >= 1)

\* a cache hit on the url of an agent that was answered with a 404 or a 500
\* before, after a 500 has been returned for /api/stats as well
C39_Witness ==
  /\ res.last.hit
  /\ res.last.url = "/api/agent/1"
  /\ res.last.url \in res.failed
  /\ "/api/stats" \in res.failed

====
